---- MODULE Spec2Model ----
(***************************************************************************)
(* Model of the upload/poll/cache orchestration core of xfyun-asr-tool.    *)
(*                                                                         *)
(* Part 1: ResultCache (src/xfyun_asr_v2.py:22-104) and the V2 poll path   *)
(* XfyunASRV2.get_result / get_transcription_result.                       *)
(* Part 2: wait_for_result of the legacy clients (src/xfyun_asr.py,        *)
(* src/xfyun_asr_result.py).                                               *)
(* Part 3: the result parsers _parse_result_v2 / _parse_result             *)
(* (src/xfyun_asr_v2.py) and format_transcript_to_text of the legacy       *)
(* clients.                                                                *)
(* Part 4: SliceIdGenerator and the submission prepare / upload / merge of *)
(* upload_file (src/xfyun_asr.py, src/xfyun_asr_upload.py) and             *)
(* upload_audio / upload_audio_by_url (src/xfyun_asr_v2.py).               *)
(*                                                                         *)
(* Python values are represented as follows:                               *)
(*   None (as a result)        the string "None"                           *)
(*   None (as a return value)  the empty tuple <<>>                        *)
(*   (status, result)          the pair <<status, result>>                 *)
(*   a raised ValueError       the 1-tuple <<"ValueError">>                *)
(*   datetime / timedelta      integer seconds                             *)
(*   dict (insertion ordered)  a sequence of entries in insertion order    *)
(***************************************************************************)
EXTENDS Integers, Sequences, FiniteSets, TLC

\* ------------------------------------------------------------------ bounds
\* largest capacity a ResultCache is constructed with
MaxCapacity == 2
\* largest time-to-live (hours) a ResultCache is constructed with
MaxExpirationHours == 1
\* number of clock steps the model follows
MaxTicks == 3
\* largest timeout (seconds) wait_for_result is called with
MaxTimeout == 2
\* largest polling interval (seconds) wait_for_result is called with
MaxInterval == 1
\* number of get_next_slice_id calls followed on one generator
MaxCalls == 30
\* largest number of pieces of an uploaded file
MaxPieces == 3
\* the most entries a lattice or lattice2 list of a result payload has
MaxEntries == 2
\* the most segments a transcript handed to format_transcript_to_text has
MaxSegments == 2

\* --------------------------------------------------------------- constants
\* seconds per hour, the factor of ResultCache._is_expired
SecondsPerHour == 3600
\* FILE_PIECE_SIZE = 10 * 1024 * 1024
FILE_PIECE_SIZE == 10485760
\* the size limit of XfyunASR.upload_file: 500 * 1024 * 1024
SizeLimit == 524288000
\* granularity of the modelled clock: half an hour
TickSeconds == SecondsPerHour \div 2

OrderIds == {"a", "b", "c"}
\* the four statuses of the poll contract plus one value outside of it
Statuses == {"processing", "completed", "failed", "not_found", "queued"}
\* statuses from which no further transition occurs (spec glossary)
TerminalStatuses == {"completed", "failed", "not_found"}
\* the (status, result) arguments of the modelled ResultCache.set calls: a
\* transcript with 'completed', None with 'failed', a value with the rest
SetArgs == {[status |-> "completed", result |-> "r1"],
            [status |-> "failed", result |-> "None"]}
           \cup [status : Statuses \ {"completed", "failed"}, result : {"r1"}]
Threads == {"t1", "t2"}
\* the calls the concurrent threads make
ThreadIds == {"a", "b"}
ThreadSetArgs == {[status |-> "completed", result |-> "r1"],
                  [status |-> "failed", result |-> "None"],
                  [status |-> "processing", result |-> "r1"]}
KeyError == <<"KeyError">>
\* the jobs that are polled
PollIds == {"a", "b"}
PollOps == {"get_result", "get_transcription_result"}

NoneVal == <<>>
ValueError == <<"ValueError">>

VARIABLES
    max_size,          \* ResultCache.max_size
    expiration_hours,  \* ResultCache.expiration_hours
    cache,             \* ResultCache.cache, entries in dict insertion order
    now,               \* datetime.datetime.now(), in seconds
    last,              \* the latest completed call and what it returned
    lock,              \* ResultCache.lock: its holder, or "free"
    pc,                \* per thread: position inside a cache operation
    call,              \* per thread: operation and arguments
    snap,              \* per thread: the cache as it was when the lock was taken
    wpc,               \* position inside wait_for_result
    wait,              \* the running wait_for_result call: arguments and locals
    wlast,             \* outcome of the wait_for_result call before this one
    sig,               \* SliceIdGenerator.__ch, as the sequence of its ord() codes
    issued,            \* the identifiers get_next_slice_id has returned, in order
    earlier,           \* identifiers known to be issued before the first of `issued`
    upc,               \* position inside upload_file / upload_audio
    job,               \* the running submission: arguments and locals
    calls,             \* the requests sent to the remote service, with their replies
    temp,              \* the temporary audio file: "none", "exists" or "removed"
    parsed,            \* a call of a result parser: its argument and what it returns
    shown              \* a call of format_transcript_to_text: argument and text

vars == <<max_size, expiration_hours, cache, now, last, lock, pc, call, snap,
          wpc, wait, wlast, sig, issued, earlier, upc, job, calls, temp,
          parsed, shown>>
cfg == <<max_size, expiration_hours>>
thr == <<lock, pc, call, snap>>
\* the calls of the pure functions: parsers and renderers
pure == <<parsed, shown>>
\* state of the V2 module (xfyun_asr_v2.py)
v2 == <<cfg, cache, last, thr, pure>>
\* state of the clients of the legacy API (xfyun_asr.py, xfyun_asr_result.py)
wt == <<wpc, wait, wlast>>
sl == <<sig, issued, earlier>>
up == <<upc, job, calls, temp>>
submit == <<sl, up>>
legacy == <<wt, submit, pure>>

\* ------------------------------------------------------------- ResultCache
Keys(c) == {c[i].order_id : i \in 1..Len(c)}

Contains(c, id) == id \in Keys(c)

\* position of key id in the dict (0 when absent)
IndexOf(c, id) ==
    IF Contains(c, id) THEN CHOOSE i \in 1..Len(c) : c[i].order_id = id ELSE 0

Entry(c, id) == c[IndexOf(c, id)]

PairOfEntry(e) == <<e.status, e.result>>

\* del self.cache[key]
DelKey(c, id) == SelectSeq(c, LAMBDA e : e.order_id # id)

\* self.cache[order_id] = {...}: an existing key keeps its position
PutKey(c, e) ==
    IF Contains(c, e.order_id)
    THEN [i \in 1..Len(c) |-> IF c[i].order_id = e.order_id THEN e ELSE c[i]]
    ELSE Append(c, e)

\* ResultCache._is_expired at clock value t
IsExpiredMinutes(timestamp, t) == (t - timestamp) > expiration_hours * 60

IsExpired(timestamp, t) == (t - timestamp) > expiration_hours * SecondsPerHour

\* min(self.cache.keys(), key=timestamp): the first key, in dict order,
\* among those with the smallest timestamp
OldestKey(c) ==
    LET i == CHOOSE i \in 1..Len(c) :
                 /\ \A j \in 1..Len(c) : c[i].timestamp <= c[j].timestamp
                 /\ \A j \in 1..(i-1) : c[j].timestamp > c[i].timestamp
    IN  c[i].order_id

\* ResultCache._remove_oldest
RemoveOldest(c) == IF Len(c) = 0 THEN c ELSE DelKey(c, OldestKey(c))

\* ResultCache.get at clock value t: the new mapping and the returned value
CacheGetKeepExpired(c, id, t) ==
    IF ~Contains(c, id) THEN [cache |-> c, ret |-> NoneVal]
    ELSE IF IsExpired(Entry(c, id).timestamp, t)
         THEN [cache |-> c, ret |-> NoneVal]
         ELSE [cache |-> c, ret |-> <<Entry(c, id).status, Entry(c, id).result>>]

CacheGetPurgesExpired(c, id, t) ==
    LET kept == SelectSeq(c, LAMBDA e : ~IsExpired(e.timestamp, t)) IN
    IF ~Contains(kept, id) THEN [cache |-> kept, ret |-> NoneVal]
    ELSE [cache |-> kept, ret |-> <<Entry(kept, id).status, Entry(kept, id).result>>]

CacheGet(c, id, t) ==
    IF ~Contains(c, id) THEN [cache |-> c, ret |-> NoneVal]
    ELSE IF IsExpired(Entry(c, id).timestamp, t)
         THEN [cache |-> DelKey(c, id), ret |-> NoneVal]
         ELSE [cache |-> c, ret |-> <<Entry(c, id).status, Entry(c, id).result>>]

\* ResultCache.set at clock value t
CacheSetAnyStatus(c, id, status, result, t) ==
    PutKey(IF Len(c) >= max_size THEN RemoveOldest(c) ELSE c,
           [order_id |-> id, status |-> status, result |-> result, timestamp |-> t])

CacheSetDropsOnOther(c, id, status, result, t) ==
    IF status = "completed" \/ status = "failed"
    THEN PutKey(IF Len(c) >= max_size THEN RemoveOldest(c) ELSE c,
                [order_id |-> id, status |-> status, result |-> result,
                 timestamp |-> t])
    ELSE DelKey(c, id)

CacheSet(c, id, status, result, t) ==
    IF status = "completed" \/ status = "failed"
    THEN PutKey(IF Len(c) >= max_size THEN RemoveOldest(c) ELSE c,
                [order_id |-> id, status |-> status, result |-> result,
                 timestamp |-> t])
    ELSE c

\* ResultCache.clear
CacheClear(c) == <<>>

\* ------------------------------------------------------------------- state
NoCall == [op |-> "none", order_id |-> "a", status |-> "none",
           result |-> "None", ret |-> NoneVal, requests |-> 0,
           use_cache |-> FALSE, creds |-> FALSE, time |-> 0, age |-> -1,
           prev |-> "none", reported |-> -1, resp |-> [none |-> TRUE],
           http |-> 0]

\* the status given to set by the latest call, when that call was a set of
\* id made at the present clock value; "none" otherwise
JustSet(id) ==
    IF last.op = "set" /\ last.order_id = id /\ last.time = now
    THEN last.status ELSE "none"

\* age of the entry of id at clock value t, -1 when id is not a key
AgeOf(c, id, t) == IF Contains(c, id) THEN t - Entry(c, id).timestamp ELSE -1

\* ord('`'), ord('a'), ord('z')
OrdBacktick == 96
OrdA == 97
OrdZ == 122
\* len('aaaaaaaaa`')
Width == 10

\* SliceIdGenerator.__init__: self.__ch = 'aaaaaaaaa`'
FreshCh == [i \in 1..Width |-> IF i < Width THEN OrdA ELSE OrdBacktick]

\* no upload_file call is running
NoJob == [impl |-> "none", video |-> FALSE, size |-> 0, task_id |-> "None",
          offset |-> 0, index |-> 1, ret |-> NoneVal]

\* the status recorded for a progress query of XfyunASRResult that returned
\* None instead of a progress dict
NoProgress == -2

\* no wait_for_result call is running / none has returned yet
\* tested is the elapsed time found by the deadline test that let the next
\* progress query pass (-1 when none is pending), seen the status of the
\* latest progress query (-3 before the first one), sleeps the number of
\* time.sleep calls since that query, results the number of getResult requests
NoWait == [impl |-> "none", start_time |-> 0, timeout |-> 0, interval |-> 0,
           polled |-> FALSE, cause |-> "none", ret |-> NoneVal,
           tested |-> -1, seen |-> -3, sleeps |-> 0, results |-> 0]

NoWaitOutcome == [impl |-> "none", cause |-> "none", ret |-> NoneVal]

\* a thread that is not inside a call
NoThreadCall == [op |-> "none", order_id |-> "a", status |-> "none",
                 result |-> "None", ret |-> NoneVal, time |-> 0]

\* a ResultCache after construction, no call made yet
NewCache ==
    /\ max_size \in 0..MaxCapacity
    /\ expiration_hours \in 1..MaxExpirationHours
    /\ cache = <<>>
    /\ now = 0
    /\ last = NoCall
    /\ lock = "free"
    /\ pc = [t \in Threads |-> "idle"]
    /\ call = [t \in Threads |-> NoThreadCall]
    /\ snap = [t \in Threads |-> <<>>]

\* no wait_for_result call has been made
NoWaits ==
    /\ wpc = "idle"
    /\ wait = NoWait
    /\ wlast = NoWaitOutcome

\* sig = SliceIdGenerator()
NewGenerator ==
    /\ sig = FreshCh
    /\ issued = <<>>
    /\ earlier = {}

\* no submission has been made
NoSubmissions ==
    /\ upc = "idle"
    /\ job = NoJob
    /\ calls = <<>>
    /\ temp = "none"

\* no parser and no renderer has been called
NoParse == [fn |-> "none", arg |-> <<>>, done |-> TRUE, ret |-> ""]
NoShown == [impl |-> "none", data |-> <<>>, done |-> TRUE, ret |-> <<>>]

NoTexts ==
    /\ parsed = NoParse
    /\ shown = NoShown

Init == NewCache /\ NoWaits /\ NewGenerator /\ NoSubmissions /\ NoTexts

\* the clock advances
Tick ==
    /\ now + TickSeconds <= MaxTicks * TickSeconds
    /\ now' = now + TickSeconds
    /\ UNCHANGED <<legacy, cfg, cache, last, thr>>

\* ------------------------------------------- sequential calls of the cache
Get(id) ==
    /\ cache' = CacheGet(cache, id, now).cache
    /\ last' = [NoCall EXCEPT !.op = "get", !.order_id = id,
                              !.ret = CacheGet(cache, id, now).ret,
                              !.time = now, !.age = AgeOf(cache, id, now),
                              !.prev = JustSet(id)]
    /\ UNCHANGED <<legacy, cfg, now, thr>>

Set(id, status, result) ==
    /\ cache' = CacheSet(cache, id, status, result, now)
    /\ last' = [NoCall EXCEPT !.op = "set", !.order_id = id,
                              !.status = status, !.result = result,
                              !.time = now, !.age = AgeOf(cache, id, now)]
    /\ UNCHANGED <<legacy, cfg, now, thr>>

Clear ==
    /\ cache' = CacheClear(cache)
    /\ last' = [NoCall EXCEPT !.op = "clear", !.time = now]
    /\ UNCHANGED <<legacy, cfg, now, thr>>

CacheNext ==
    \/ Tick
    \/ \E id \in OrderIds : Get(id)
    \/ \E id \in OrderIds, a \in SetArgs : Set(id, a.status, a.result)
    \/ Clear

CacheSpec == Init /\ [][CacheNext]_vars

\* ------------------------------------------------------ remote responses
\* A response of _send_request is a Python dict: a function whose domain is
\* the set of keys present.  A code is [t |-> "int" or "str", v |-> digits].
IntCode(v) == [t |-> "int", v |-> v]
StrCode(v) == [t |-> "str", v |-> v]

\* orderResult payloads: a dict, or a str that is or is not JSON
PayloadEmpty == [type |-> "str", json_ok |-> FALSE, raw |-> ""]
PayloadText == [type |-> "dict", content |-> [text |-> "hello"]]
PayloadNoFields == [type |-> "dict", content |-> [other |-> "x"]]
PayloadRawLong == [type |-> "str", json_ok |-> FALSE, raw |-> "plain transcript"]
PayloadRawShort == [type |-> "str", json_ok |-> FALSE, raw |-> "oops"]

\* the strings the parsers return in place of a transcript
ParseFailed == "PARSE_FAILED"     \* "解析结果失败"
NoTextExtracted == "NO_TEXT"      \* "未提取到文本内容"

\* `not result_str`: an empty str or an empty dict is falsy
Falsy(p) == IF p.type = "str" THEN p.raw = "" ELSE DOMAIN p.content = {}

\* An entry of a lattice / lattice2 list, by what its json_1best holds:
\*   "str"            a JSON string of an object with st.rt[0].ws[].cw[].w
\*   "dict"           the same object, already decoded
\*   "two_rt"         a JSON string whose st.rt has two segments
\*   "bad_json"       a string that is not JSON
\*   "no_json_1best"  the entry has no json_1best
\*   "no_st"          the object has no st (or st has no rt)
\*   "no_ws"          the first segment of st.rt has no ws
\* w is the text of the characters of the first segment, w2 of the second.
Item(kind, w) ==
    [kind |-> kind, w |-> w, w2 |-> IF kind = "two_rt" THEN "2" ELSE ""]

\* the payload shapes in the order _parse_result_v2 tries them
ShapesLatticeFirst == <<"lattice", "text", "lattice2", "nbest", "result">>

Shapes == <<"text", "lattice", "lattice2", "nbest", "result">>

\* XfyunASRV2._parse_result_v2.  A str payload that is valid JSON is handled
\* as the dict it decodes to.
ParseResultV2(p) ==
    IF Falsy(p) THEN ""
    ELSE IF p.type = "str" /\ ~p.json_ok
         THEN IF Len(p.raw) > 5 THEN p.raw ELSE ParseFailed
         ELSE
    LET content == p.content
        \* lines 596-618: json_1best missing, not JSON (continue), without
        \* st / rt, or raising KeyError in the inner try: nothing is added
        RECURSIVE Lattice(_)
        Lattice(items) ==
            IF items = <<>> THEN ""
            ELSE (IF Head(items).kind \in {"str", "dict", "two_rt"}
                  THEN Head(items).w ELSE "") \o Lattice(Tail(items))
        \* lines 621-649: every segment of st.rt that has ws is added
        RECURSIVE Lattice2(_)
        Lattice2(items) ==
            IF items = <<>> THEN ""
            ELSE (IF Head(items).kind \in {"str", "dict", "two_rt"}
                  THEN Head(items).w \o Head(items).w2 ELSE "")
                 \o Lattice2(Tail(items))
        \* what the block of shape k adds to full_text
        Yield(k) ==
            CASE k = "text" -> content["text"]
              [] k = "lattice" -> Lattice(content["lattice"])
              [] k = "lattice2" -> Lattice2(content["lattice2"])
              [] k = "nbest" ->
                   IF Len(content["nbest"]) > 0
                      /\ content["nbest"][1].kind \in {"str", "sentence"}
                   THEN content["nbest"][1].s ELSE ""
              [] k = "result" ->
                   IF content["result"].kind \in {"str", "text"}
                   THEN content["result"].s ELSE ""
        \* each block runs only while full_text is empty
        RECURSIVE Try(_)
        Try(i) ==
            IF i > Len(Shapes) THEN NoTextExtracted
            ELSE IF Shapes[i] \in DOMAIN content /\ Yield(Shapes[i]) # ""
                 THEN Yield(Shapes[i])
                 ELSE Try(i + 1)
    IN Try(1)

\* full_text += sentence, for every item of the lattice in order: an item
\* without json_1best, st or rt adds nothing
RECURSIVE JoinSentences(_)
JoinSentences(items) ==
    IF items = <<>> THEN ""
    ELSE (IF Head(items).kind \in {"str", "two_rt"} THEN Head(items).w ELSE "")
         \o JoinSentences(Tail(items))

\* XfyunASRV2._parse_result on a legacy response: content is a JSON str.
\* json.loads of a json_1best that is not JSON or not a str, and the
\* KeyError of a segment without ws, end the parse in the except branch.
ParseResult(resp) ==
    IF "content" \notin DOMAIN resp THEN ""
    ELSE IF ~resp.content.json_ok THEN ParseFailed
         ELSE IF "lattice" \in DOMAIN resp.content
              THEN IF \E i \in 1..Len(resp.content.lattice) :
                        resp.content.lattice[i].kind
                            \in {"bad_json", "dict", "no_ws"}
                   THEN ParseFailed
                   ELSE JoinSentences(resp.content.lattice)
              ELSE ""

V2Response(status, payload) ==
    [code |-> StrCode("000000"),
     content |-> [orderInfo |-> [status |-> status], orderResult |-> payload]]

\* one response for every branch of XfyunASRV2.get_result
Responses ==
    {[message |-> "no code"],
     V2Response(4, PayloadText), V2Response(4, PayloadNoFields),
     V2Response(4, PayloadEmpty),
     V2Response(3, PayloadEmpty), V2Response(0, PayloadEmpty),
     V2Response(1, PayloadEmpty), V2Response(2, PayloadEmpty),
     V2Response(9, PayloadEmpty), V2Response(5, PayloadEmpty),
     [code |-> StrCode("000000"), content |-> [taskEstimateTime |-> 0]],
     [code |-> StrCode("000000")],
     [code |-> IntCode("0"), status |-> 4,
      content |-> [json_ok |-> TRUE,
                   lattice |-> <<Item("str", "hel"), Item("str", "lo")>>]],
     [code |-> IntCode("0"), status |-> 3], [code |-> IntCode("0"), status |-> 0],
     [code |-> IntCode("0"), status |-> 1], [code |-> IntCode("0"), status |-> 2],
     [code |-> IntCode("0"), status |-> 9],
     [code |-> IntCode("26602")],
     [code |-> StrCode("10001")],
     [code |-> IntCode("-1"), message |-> "HTTP"]}

\* result["code"] == n or result["code"] == "n"
CodeIs(resp, v) == resp.code.v = v

\* the documented error codes 10001..10015
ListedErrorCodes ==
    {"10001", "10002", "10003", "10004", "10005", "10006", "10007", "10008",
     "10009", "10010", "10011", "10012", "10013", "10014", "10015"}

Outcome(status, result, set) == [status |-> status, result |-> result, set |-> set]

\* the order status a response carries: orderInfo.status of the V2 format,
\* status of the legacy format, -1 when it carries none
OrderStatus(resp) ==
    IF "code" \notin DOMAIN resp THEN -1
    ELSE IF resp.code = StrCode("000000") /\ "content" \in DOMAIN resp
    THEN IF "orderInfo" \in DOMAIN resp.content
         THEN resp.content.orderInfo.status ELSE -1
    ELSE IF resp.code = IntCode("0") THEN resp.status
    ELSE -1

\* the order statuses created, queued, uploading, processing
ProgressCodes == {0, 1, 2, 3}

\* XfyunASRV2.get_result after the response has arrived: the status and
\* result returned and whether self.cache.set is called with them
ResponseOutcomeOnlyThree(resp) ==
    IF "code" \notin DOMAIN resp THEN Outcome("failed", "None", TRUE)
    ELSE IF resp.code = StrCode("000000") /\ "content" \in DOMAIN resp
    THEN IF "orderInfo" \in DOMAIN resp.content
         THEN LET status_code == resp.content.orderInfo.status IN
              IF status_code = 4
              THEN IF "orderResult" \in DOMAIN resp.content
                      /\ ~Falsy(resp.content.orderResult)
                   THEN Outcome("completed",
                                ParseResultV2(resp.content.orderResult), TRUE)
                   ELSE Outcome("failed", "None", TRUE)
              ELSE IF status_code \in {3}
                   THEN Outcome("processing", "None", FALSE)
                   ELSE Outcome("failed", "None", TRUE)
         ELSE Outcome("processing", "None", FALSE)
    ELSE IF resp.code = IntCode("0")
    THEN IF resp.status = 4
         THEN Outcome("completed", ParseResult(resp), TRUE)
         ELSE IF resp.status \in {3}
              THEN Outcome("processing", "None", FALSE)
              ELSE Outcome("failed", "None", TRUE)
    ELSE IF CodeIs(resp, "26602") THEN Outcome("not_found", "None", TRUE)
    ELSE IF resp.code.v \in ListedErrorCodes THEN Outcome("failed", "None", FALSE)
    ELSE Outcome("failed", "None", TRUE)

ResponseOutcome(resp) ==
    IF "code" \notin DOMAIN resp THEN Outcome("failed", "None", TRUE)
    ELSE IF resp.code = StrCode("000000") /\ "content" \in DOMAIN resp
    THEN IF "orderInfo" \in DOMAIN resp.content
         THEN LET status_code == resp.content.orderInfo.status IN
              IF status_code = 4
              THEN IF "orderResult" \in DOMAIN resp.content
                      /\ ~Falsy(resp.content.orderResult)
                   THEN Outcome("completed",
                                ParseResultV2(resp.content.orderResult), TRUE)
                   ELSE Outcome("failed", "None", TRUE)
              ELSE IF status_code \in {3, 0, 1, 2}
                   THEN Outcome("processing", "None", FALSE)
                   ELSE Outcome("failed", "None", TRUE)
         ELSE Outcome("processing", "None", FALSE)
    ELSE IF resp.code = IntCode("0")
    THEN IF resp.status = 4
         THEN Outcome("completed", ParseResult(resp), TRUE)
         ELSE IF resp.status \in {0, 1, 2, 3}
              THEN Outcome("processing", "None", FALSE)
              ELSE Outcome("failed", "None", TRUE)
    ELSE IF CodeIs(resp, "26602") THEN Outcome("not_found", "None", TRUE)
    ELSE IF resp.code.v \in ListedErrorCodes THEN Outcome("failed", "None", FALSE)
    ELSE Outcome("failed", "None", TRUE)

\* the responses a poll draws from: one for every distinct outcome
DistinctResponses ==
    {CHOOSE r \in Responses : ResponseOutcome(r) = o :
       o \in {ResponseOutcome(r) : r \in Responses}}

\* the ways get_transcription_result is called: without credentials no
\* request is made, so no response is drawn
PollArgs ==
    [creds : {TRUE}, use_cache : BOOLEAN, resp : DistinctResponses]
    \cup [creds : {FALSE}, use_cache : BOOLEAN, resp : {[message |-> "no code"]}]

\* XfyunASRV2.get_result at clock value t, with a request answered resp
GetResultAlwaysQueries(c, id, resp, t) ==
    LET o == ResponseOutcome(resp) IN
    [cache |-> IF o.set THEN CacheSet(c, id, o.status, o.result, t) ELSE c,
     ret |-> <<o.status, o.result>>, requests |-> 1]

GetResult(c, id, resp, t) ==
    LET cached == CacheGet(c, id, t) IN
    IF cached.ret # NoneVal
    THEN [cache |-> cached.cache, ret |-> cached.ret, requests |-> 0]
    ELSE LET o == ResponseOutcome(resp) IN
         [cache |-> IF o.set
                    THEN CacheSet(cached.cache, id, o.status, o.result, t)
                    ELSE cached.cache,
          ret |-> <<o.status, o.result>>, requests |-> 1]

\* get_transcription_result; creds tells whether an app id and a secret key
\* are given or found in the environment
GetTranscriptionResult(c, id, creds, use_cache, resp, t) ==
    LET cached == IF use_cache THEN CacheGet(c, id, t)
                  ELSE [cache |-> c, ret |-> NoneVal] IN
    IF cached.ret # NoneVal
    THEN [cache |-> cached.cache, ret |-> cached.ret, requests |-> 0]
    ELSE IF ~creds
    THEN [cache |-> cached.cache, ret |-> ValueError, requests |-> 0]
    ELSE LET r == GetResult(cached.cache, id, resp, t) IN
         IF use_cache /\ r.ret[1] \in {"completed", "failed", "not_found"}
         THEN [r EXCEPT !.cache = CacheSet(r.cache, id, r.ret[1], r.ret[2], t)]
         ELSE r

\* the status returned by the latest call, when that call was a poll of id
\* with the cache enabled that queried the remote service and ended at the
\* present clock value; "none" otherwise
JustPolled(id) ==
    IF /\ last.op \in {"get_result", "get_transcription_result"}
       /\ last.order_id = id /\ last.time = now
       /\ last.requests = 1 /\ last.use_cache
    THEN last.ret[1] ELSE "none"

\* the order status the remote service reported to a poll with outcome r:
\* -1 when no request was made or the response carries none
Reported(r, resp) ==
    IF r.requests = 1 THEN OrderStatus(resp) ELSE -1

\* the response a poll with outcome r received from the remote service
Received(r, resp) ==
    IF r.requests = 1 THEN resp ELSE [none |-> TRUE]

\* the polls go through GLOBAL_CACHE = ResultCache(), whose capacity is the
\* (positive) default
PollInit == Init /\ max_size >= 1

\* a caller polls through a client object
CallGetResult(id, resp) ==
    \E r \in {GetResult(cache, id, resp, now)} :
    /\ cache' = r.cache
    /\ last' = [NoCall EXCEPT !.op = "get_result", !.order_id = id,
                              !.ret = r.ret, !.requests = r.requests,
                              !.use_cache = TRUE, !.creds = TRUE,
                              !.time = now, !.prev = JustPolled(id),
                              !.reported = Reported(r, resp),
                              !.resp = Received(r, resp)]
    /\ UNCHANGED <<legacy, cfg, now, thr>>

\* a caller polls through the module-level function
CallGetTranscriptionResult(id, a) ==
    \E r \in {GetTranscriptionResult(cache, id, a.creds, a.use_cache, a.resp, now)} :
    /\ cache' = r.cache
    /\ last' = [NoCall EXCEPT !.op = "get_transcription_result",
                              !.order_id = id, !.ret = r.ret,
                              !.requests = r.requests,
                              !.use_cache = a.use_cache, !.creds = a.creds,
                              !.time = now, !.prev = JustPolled(id),
                              !.reported = Reported(r, a.resp),
                              !.resp = Received(r, a.resp)]
    /\ UNCHANGED <<legacy, cfg, now, thr>>

PollTick ==
    /\ now + TickSeconds <= MaxTicks * TickSeconds
    /\ now' = now + TickSeconds
    /\ UNCHANGED <<legacy, cfg, cache, last, thr>>

PollNext ==
    \/ PollTick
    \/ \E id \in PollIds, resp \in DistinctResponses : CallGetResult(id, resp)
    \/ \E id \in PollIds, a \in PollArgs : CallGetTranscriptionResult(id, a)

PollSpec == PollInit /\ [][PollNext]_vars

\* ------------------------------------------- polls of a job in progress
\* every response that reports an order in progress, in both formats, next
\* to a failed order and to finished orders with and without a result
ProgressResponses ==
    {V2Response(s, PayloadEmpty) : s \in ProgressCodes}
    \cup {[code |-> IntCode("0"), status |-> s] : s \in ProgressCodes}
    \cup {V2Response(4, PayloadText), V2Response(9, PayloadEmpty),
          V2Response(4, PayloadEmpty)}

ProgressArgs == [creds : {TRUE}, use_cache : BOOLEAN, resp : ProgressResponses]

ProgressNext ==
    \/ PollTick
    \/ \E id \in PollIds, resp \in ProgressResponses : CallGetResult(id, resp)
    \/ \E id \in PollIds, a \in ProgressArgs : CallGetTranscriptionResult(id, a)

ProgressSpec == PollInit /\ [][ProgressNext]_vars

\* ------------------------------------- polls answered with faulty responses
\* GET /result/{task_id} of app/main.py: the HTTP status of the answer to a
\* request whose call of get_transcription_result returned (or raised) ret.
\* The HTTPException(404) is raised inside the try block, whose handler
\* catches every Exception and raises HTTPException(500) in its place.
GetTranscription(ret) ==
    LET raised == IF ret = ValueError THEN "ValueError"
                  ELSE IF ret[1] = "not_found" THEN "HTTPException(404)"
                  ELSE "none"
    IN IF raised # "none" THEN 500 ELSE 200

\* responses the remote service is not documented to give, a failure of the
\* transport as _send_request reports it, and three documented responses
FaultResponses ==
    {[message |-> "no code"],
     [code |-> StrCode("000000"), content |-> [taskEstimateTime |-> 0]],
     [code |-> StrCode("000000")],
     V2Response(5, PayloadEmpty),
     [code |-> IntCode("0"), status |-> 7],
     [code |-> IntCode("99999"), message |-> "unknown"],
     [code |-> IntCode("-1"), message |-> "HTTP"],
     [code |-> IntCode("26602")],
     V2Response(3, PayloadEmpty),
     V2Response(4, PayloadText)}

FaultArgs ==
    [creds : {TRUE}, use_cache : BOOLEAN, resp : FaultResponses]
    \cup [creds : {FALSE}, use_cache : BOOLEAN, resp : {[message |-> "no code"]}]

\* a client requests GET /result/{id}
CallGetTranscription(id, a) ==
    \E r \in {GetTranscriptionResult(cache, id, a.creds, a.use_cache, a.resp, now)} :
    /\ cache' = r.cache
    /\ last' = [NoCall EXCEPT !.op = "get_transcription",
                              !.order_id = id, !.ret = r.ret,
                              !.requests = r.requests,
                              !.use_cache = a.use_cache, !.creds = a.creds,
                              !.time = now,
                              !.reported = Reported(r, a.resp),
                              !.resp = Received(r, a.resp),
                              !.http = GetTranscription(r.ret)]
    /\ UNCHANGED <<legacy, cfg, now, thr>>

FaultNext ==
    \/ \E id \in OrderIds, resp \in FaultResponses : CallGetResult(id, resp)
    \/ \E id \in OrderIds, a \in FaultArgs : CallGetTranscriptionResult(id, a)
    \/ \E id \in OrderIds, a \in FaultArgs : CallGetTranscription(id, a)

FaultSpec == PollInit /\ [][FaultNext]_vars

\* ------------------------------------------------------ the result parsers
\* the lattice and lattice2 lists of up to MaxEntries entries
Lists ==
    LET items == {Item(k, w) : k \in {"str", "dict", "two_rt"}, w \in {"x", "y"}}
                 \cup {Item(k, "") : k \in {"bad_json", "no_json_1best",
                                            "no_st", "no_ws"}}
    IN UNION {[1..n -> items] : n \in 0..MaxEntries}

\* the decoded payloads handed to _parse_result_v2: every list under lattice
\* next to the other shapes, every list under lattice2 when lattice is
\* missing or holds nothing, and every form of nbest and result
Contents ==
    LET \* a key of the dict that may be missing
        Opt(values, none) ==
            {[has |-> FALSE, v |-> none]}
            \cup {[has |-> TRUE, v |-> x] : x \in values}
        Key(k, o) == IF o.has THEN k :> o.v ELSE <<>>
        Dict(t, l, l2, n, r) ==
            Key("text", t) @@ Key("lattice", l) @@ Key("lattice2", l2)
            @@ Key("nbest", n) @@ Key("result", r)
        texts == Opt({"", "T"}, "")
        first(ss) == Opt({<<[kind |-> "str", s |-> x]>> : x \in ss}, <<>>)
        nbests == Opt({<<>>, <<[kind |-> "str", s |-> "N"]>>,
                       <<[kind |-> "sentence", s |-> "N"]>>,
                       <<[kind |-> "sentence", s |-> ""]>>,
                       <<[kind |-> "other", s |-> ""]>>}, <<>>)
        results == Opt({[kind |-> "str", s |-> "R"], [kind |-> "str", s |-> ""],
                        [kind |-> "text", s |-> "R"],
                        [kind |-> "other", s |-> ""]}, [kind |-> "other", s |-> ""])
        strR == Opt({[kind |-> "str", s |-> "R"]}, [kind |-> "other", s |-> ""])
    IN {Dict(t, l, l2, n, r) :
            t \in texts, l \in Opt(Lists, <<>>),
            l2 \in Opt({<<Item("str", "m")>>}, <<>>),
            n \in first({"N"}), r \in strR}
       \cup {Dict(t, l, l2, n, r) :
            t \in Opt({""}, ""), l \in Opt({<<Item("bad_json", "")>>}, <<>>),
            l2 \in Opt(Lists, <<>>), n \in first({"N"}), r \in strR}
       \cup {Dict(t, l, l2, n, r) :
            t \in texts, l \in Opt({}, <<>>), l2 \in Opt({}, <<>>),
            n \in nbests, r \in results}

\* the arguments of _parse_result_v2: dicts, JSON strings of the same, and
\* strings that are no JSON
Payloads ==
    {[type |-> "dict", content |-> c] : c \in Contents}
    \cup {[type |-> "str", json_ok |-> TRUE, raw |-> "{...}", content |-> c] :
            c \in {c \in Contents : DOMAIN c \subseteq {"text", "lattice"}}}
    \cup {PayloadEmpty, PayloadText, PayloadNoFields, PayloadRawLong,
          PayloadRawShort}

\* the arguments of _parse_result: legacy responses of a finished order
LegacyResults ==
    {[code |-> IntCode("0"), status |-> 4],
     [code |-> IntCode("0"), status |-> 4, content |-> [json_ok |-> FALSE]],
     [code |-> IntCode("0"), status |-> 4, content |-> [json_ok |-> TRUE]]}
    \cup {[code |-> IntCode("0"), status |-> 4,
           content |-> [json_ok |-> TRUE, lattice |-> l]] : l \in Lists}

\* text = self._parse_result_v2(content["orderResult"])
CallParseResultV2 ==
    /\ parsed.fn = "_parse_result_v2" /\ ~parsed.done
    /\ parsed' = [parsed EXCEPT !.done = TRUE, !.ret = ParseResultV2(parsed.arg)]
    /\ UNCHANGED <<cfg, cache, last, thr, now, wt, submit, shown>>

\* text = self._parse_result(result)
CallParseResult ==
    /\ parsed.fn = "_parse_result" /\ ~parsed.done
    /\ parsed' = [parsed EXCEPT !.done = TRUE, !.ret = ParseResult(parsed.arg)]
    /\ UNCHANGED <<cfg, cache, last, thr, now, wt, submit, shown>>

\* a parser is about to be called with one of the payloads
ParseInit ==
    /\ NewCache /\ max_size = 1 /\ expiration_hours = 1
    /\ NoWaits /\ NewGenerator /\ NoSubmissions
    /\ shown = NoShown
    /\ parsed \in {[fn |-> "_parse_result_v2", arg |-> p, done |-> FALSE,
                     ret |-> ""] : p \in Payloads}
                  \cup {[fn |-> "_parse_result", arg |-> r, done |-> FALSE,
                         ret |-> ""] : r \in LegacyResults}

ParseNext ==
    \/ CallParseResultV2
    \/ CallParseResult

ParseSpec == ParseInit /\ [][ParseNext]_vars

\* ------------------------------------ the answers to an upload request
\* XfyunASRV2.upload_url once _send_request has returned result: the order
\* id, or None
UploadUrl(result) ==
    IF /\ "code" \in DOMAIN result /\ result.code = StrCode("000000")
       /\ "content" \in DOMAIN result /\ "orderId" \in DOMAIN result.content
    THEN result.content.orderId
    ELSE IF /\ "code" \in DOMAIN result
            /\ (result.code = IntCode("0") \/ result.code = StrCode("0"))
            /\ "orderId" \in DOMAIN result
         THEN result.orderId
         ELSE "None"

\* XfyunASRV2.upload_file once _send_request has returned result
UploadFile(result) ==
    IF /\ "code" \in DOMAIN result /\ result.code = IntCode("0")
       /\ "orderId" \in DOMAIN result
    THEN result.orderId
    ELSE "None"

\* the dicts _send_request returns for an upload: with or without code,
\* content (holding an orderId or not), a top-level orderId and a message
UploadResults ==
    LET Opt(k, values) == {<<>>} \cup {k :> x : x \in values}
    IN {c @@ n @@ o @@ m :
          c \in Opt("code", {StrCode("000000"), IntCode("0"), StrCode("0"),
                             IntCode("26602"), IntCode("-1")}),
          n \in Opt("content", {[orderId |-> "X"], [taskEstimateTime |-> 0]}),
          o \in Opt("orderId", {"Y"}),
          m \in Opt("message", {"msg"})}

\* order_id = self.upload_url(audio_url), from the answer on
CallUploadUrl ==
    /\ parsed.fn = "upload_url" /\ ~parsed.done
    /\ parsed' = [parsed EXCEPT !.done = TRUE, !.ret = UploadUrl(parsed.arg)]
    /\ UNCHANGED <<cfg, cache, last, thr, now, wt, submit, shown>>

\* order_id = self.upload_file(file_path), from the answer on
CallUploadFile ==
    /\ parsed.fn = "upload_file" /\ ~parsed.done
    /\ parsed' = [parsed EXCEPT !.done = TRUE, !.ret = UploadFile(parsed.arg)]
    /\ UNCHANGED <<cfg, cache, last, thr, now, wt, submit, shown>>

\* an upload request has been answered with one of the dicts
AcceptInit ==
    /\ NewCache /\ max_size = 1 /\ expiration_hours = 1
    /\ NoWaits /\ NewGenerator /\ NoSubmissions
    /\ shown = NoShown
    /\ parsed \in [fn : {"upload_url", "upload_file"}, arg : UploadResults,
                    done : {FALSE}, ret : {""}]

AcceptNext ==
    \/ CallUploadUrl
    \/ CallUploadFile

AcceptSpec == AcceptInit /\ [][AcceptNext]_vars

\* ------------------------------------------- format_transcript_to_text
\* the transcripts of up to MaxSegments segments; speaker "none": the
\* segment has no speaker key
Transcripts ==
    UNION {[1..n -> [speaker : {"none", "0", "1"}, onebest : {"a", "b", ""},
                     bg : {1, 2}]] : n \in 0..MaxSegments}

\* format_transcript_to_text of XfyunASR (xfyun_asr.py) and of
\* XfyunASRResult (xfyun_asr_result.py), on a list of segments.  The text
\* returned is given as the sequence of its pieces: a segment text, a
\* separator, or the label of a speaker ("说话人 0：" / "【说话人 0】").
FormatTranscriptToText(impl, data) ==
    LET Text(v) == [t |-> "text", v |-> v]
        Sep(v) == [t |-> "sep", v |-> v]
        Label(v) == [t |-> "label", v |-> v]
        \* segment.get('speaker', '0')
        Speaker(seg) == IF seg.speaker = "none" THEN "0" ELSE seg.speaker
        \* sorted(transcript_data, key=lambda x: int(x.get('bg', 0))): stable
        RECURSIVE Sorted(_)
        Sorted(segs) ==
            IF segs = <<>> THEN <<>>
            ELSE LET x == segs[Len(segs)]
                     rest == Sorted(SubSeq(segs, 1, Len(segs) - 1))
                 IN SelectSeq(rest, LAMBDA y : y.bg <= x.bg) \o <<x>>
                    \o SelectSeq(rest, LAMBDA y : y.bg > x.bg)
        \* speaker_texts: per speaker, in order of first insertion, the
        \* texts appended
        RECURSIVE Grouped(_)
        Grouped(segs) ==
            IF segs = <<>> THEN <<>>
            ELSE LET x == segs[Len(segs)]
                     g == Grouped(SubSeq(segs, 1, Len(segs) - 1))
                 IN IF \E i \in 1..Len(g) : g[i].speaker = Speaker(x)
                    THEN [i \in 1..Len(g) |->
                            IF g[i].speaker = Speaker(x)
                            THEN [g[i] EXCEPT !.texts = Append(@, x.onebest)]
                            ELSE g[i]]
                    ELSE Append(g, [speaker |-> Speaker(x),
                                    texts |-> <<x.onebest>>])
        \* sep.join(texts)
        RECURSIVE Join(_, _)
        Join(texts, sep) ==
            IF texts = <<>> THEN <<>>
            ELSE IF Len(texts) = 1 THEN <<Text(texts[1])>>
            ELSE <<Text(texts[1]), Sep(sep)>> \o Join(Tail(texts), sep)
        Blank(tok) == tok.t = "sep" \/ (tok.t = "text" /\ tok.v = "")
        \* full_text.strip()
        RECURSIVE Strip(_)
        Strip(toks) ==
            IF toks = <<>> THEN <<>>
            ELSE IF Blank(Head(toks)) THEN Strip(Tail(toks))
            ELSE IF Blank(toks[Len(toks)])
                 THEN Strip(SubSeq(toks, 1, Len(toks) - 1))
                 ELSE toks
        RECURSIVE Blocks(_, _, _)
        Blocks(groups, head, sep) ==
            IF groups = <<>> THEN <<>>
            ELSE <<Label(Head(groups).speaker)>> \o head
                 \o Join(Head(groups).texts, sep) \o <<Sep("\n\n")>>
                 \o Blocks(Tail(groups), head, sep)
        RECURSIVE AllTexts(_)
        AllTexts(groups) ==
            IF groups = <<>> THEN <<>>
            ELSE Head(groups).texts \o AllTexts(Tail(groups))
    IN IF impl = "XfyunASR"
       THEN \* xfyun_asr.py:425-456
            IF data = <<>> THEN <<>>
            ELSE LET speaker_texts == Grouped(Sorted(data)) IN
                 Strip(IF Len(speaker_texts) > 1
                       THEN Blocks(speaker_texts, <<>>, " ")
                       ELSE Join(AllTexts(speaker_texts), " "))
       ELSE \* xfyun_asr_result.py:198-229: segments without text are
            \* skipped, nothing is sorted or stripped
            LET speaker_texts ==
                    Grouped(SelectSeq(data, LAMBDA seg : seg.onebest # ""))
            IN IF Len(speaker_texts) = 1
               THEN Join(speaker_texts[1].texts, "\n")
               ELSE Blocks(speaker_texts, <<Sep("\n")>>, "\n")

\* text = asr.format_transcript_to_text(...)
CallFormatTranscriptToText ==
    /\ shown.impl # "none" /\ ~shown.done
    /\ shown' = [shown EXCEPT !.done = TRUE,
                              !.ret = FormatTranscriptToText(shown.impl,
                                                             shown.data)]
    /\ UNCHANGED <<cfg, cache, last, thr, now, wt, submit, parsed>>

\* a client is about to render one of the transcripts
RenderInit ==
    /\ NewCache /\ max_size = 1 /\ expiration_hours = 1
    /\ NoWaits /\ NewGenerator /\ NoSubmissions
    /\ parsed = NoParse
    /\ shown \in [impl : {"XfyunASR", "XfyunASRResult"}, data : Transcripts,
                  done : {FALSE}, ret : {<<>>}]

RenderNext == CallFormatTranscriptToText

RenderSpec == RenderInit /\ [][RenderNext]_vars

\* ----------------------------------------- concurrent calls of the cache
\* positions inside the `with self.lock:` block of an operation
BodyPcs == {"get1", "get2", "get3", "set1", "set2", "set3", "clear1"}

ThreadCalls ==
    {[NoThreadCall EXCEPT !.op = "get", !.order_id = id] : id \in ThreadIds}
    \cup {[NoThreadCall EXCEPT !.op = "set", !.order_id = id,
                               !.status = a.status, !.result = a.result] :
             id \in ThreadIds, a \in ThreadSetArgs}
    \cup {[NoThreadCall EXCEPT !.op = "clear"]}

\* threading.Lock: acquire proceeds only while no thread holds the lock
LockIgnored(l) == TRUE

LockFree(l) == l = "free"

\* a thread calls get, set or clear
Invoke(t, c) ==
    /\ pc[t] = "idle"
    /\ pc' = [pc EXCEPT ![t] = "acquire"]
    /\ call' = [call EXCEPT ![t] = c]
    /\ UNCHANGED <<legacy, cfg, cache, now, last, lock, snap>>

\* `with self.lock:` entered
Acquire(t) ==
    /\ pc[t] = "acquire"
    /\ LockFree(lock)
    /\ lock' = t
    /\ snap' = [snap EXCEPT ![t] = cache]
    /\ pc' = [pc EXCEPT ![t] = CASE call[t].op = "get" -> "get1"
                                 [] call[t].op = "set" -> "set1"
                                 [] OTHER -> "clear1"]
    /\ UNCHANGED <<legacy, cfg, cache, now, last, call>>

\* the operation returns (or raises) r and the `with` block releases the lock
Finish(t, r) ==
    /\ pc' = [pc EXCEPT ![t] = "done"]
    /\ call' = [call EXCEPT ![t].ret = r, ![t].time = 0]
    /\ snap' = [snap EXCEPT ![t] = <<>>]
    /\ lock' = "free"

\* if order_id not in self.cache: return None
Get1(t) ==
    /\ pc[t] = "get1"
    /\ IF ~Contains(cache, call[t].order_id)
       THEN Finish(t, NoneVal)
       ELSE /\ pc' = [pc EXCEPT ![t] = "get2"]
            /\ UNCHANGED <<lock, call, snap>>
    /\ UNCHANGED <<legacy, cfg, cache, now, last>>

\* cache_item = self.cache[order_id]; if self._is_expired(...): ... else return
Get2(t) ==
    /\ pc[t] = "get2"
    /\ IF ~Contains(cache, call[t].order_id)
       THEN Finish(t, KeyError)
       ELSE IF IsExpired(Entry(cache, call[t].order_id).timestamp, now)
            THEN /\ pc' = [pc EXCEPT ![t] = "get3"]
                 /\ call' = [call EXCEPT ![t].time = now]
                 /\ UNCHANGED <<lock, snap>>
            ELSE Finish(t, PairOfEntry(Entry(cache, call[t].order_id)))
    /\ UNCHANGED <<legacy, cfg, cache, now, last>>

\* del self.cache[order_id]; return None
Get3(t) ==
    /\ pc[t] = "get3"
    /\ IF ~Contains(cache, call[t].order_id)
       THEN Finish(t, KeyError) /\ UNCHANGED cache
       ELSE Finish(t, NoneVal)
            /\ cache' = DelKey(cache, call[t].order_id)
    /\ UNCHANGED <<legacy, cfg, now, last>>

\* if status == 'completed' or status == 'failed':
Set1(t) ==
    /\ pc[t] = "set1"
    /\ IF call[t].status = "completed" \/ call[t].status = "failed"
       THEN /\ pc' = [pc EXCEPT ![t] = "set2"]
            /\ UNCHANGED <<lock, call, snap>>
       ELSE Finish(t, NoneVal)
    /\ UNCHANGED <<legacy, cfg, cache, now, last>>

\* if len(self.cache) >= self.max_size: self._remove_oldest()
Set2(t) ==
    /\ pc[t] = "set2"
    /\ cache' = IF Len(cache) >= max_size THEN RemoveOldest(cache) ELSE cache
    /\ pc' = [pc EXCEPT ![t] = "set3"]
    /\ UNCHANGED <<legacy, cfg, now, last, lock, call, snap>>

\* self.cache[order_id] = {status, result, timestamp: now()}
Set3(t) ==
    /\ pc[t] = "set3"
    /\ cache' = PutKey(cache, [order_id |-> call[t].order_id,
                               status |-> call[t].status,
                               result |-> call[t].result, timestamp |-> now])
    /\ Finish(t, NoneVal)
    /\ UNCHANGED <<legacy, cfg, now, last>>

\* self.cache.clear()
Clear1(t) ==
    /\ pc[t] = "clear1"
    /\ cache' = <<>>
    /\ Finish(t, NoneVal)
    /\ UNCHANGED <<legacy, cfg, now, last>>

\* the caller takes the returned value
Return(t) ==
    /\ pc[t] = "done"
    /\ pc' = [pc EXCEPT ![t] = "idle"]
    /\ call' = [call EXCEPT ![t] = NoThreadCall]
    /\ UNCHANGED <<legacy, cfg, cache, now, last, lock, snap>>

ThreadTick ==
    /\ now + TickSeconds <= MaxTicks * TickSeconds
    /\ now' = now + TickSeconds
    /\ UNCHANGED <<legacy, cfg, cache, last, thr>>

ConcNext ==
    \/ ThreadTick
    \/ \E t \in Threads, c \in ThreadCalls : Invoke(t, c)
    \/ \E t \in Threads : Acquire(t)
    \/ \E t \in Threads : Get1(t)
    \/ \E t \in Threads : Get2(t)
    \/ \E t \in Threads : Get3(t)
    \/ \E t \in Threads : Set1(t)
    \/ \E t \in Threads : Set2(t)
    \/ \E t \in Threads : Set3(t)
    \/ \E t \in Threads : Clear1(t)
    \/ \E t \in Threads : Return(t)

ConcSpec == Init /\ [][ConcNext]_vars

\* what a call does to mapping c, and what it returns, when nothing else
\* runs during it and it reads clock value tm
SeqCache(cl, c, tm) ==
    CASE cl.op = "get" -> CacheGet(c, cl.order_id, tm).cache
      [] cl.op = "set" -> CacheSet(c, cl.order_id, cl.status, cl.result, tm)
      [] OTHER -> CacheClear(c)

SeqRet(cl, c, tm) ==
    IF cl.op = "get" THEN CacheGet(c, cl.order_id, tm).ret ELSE NoneVal

\* the clock value thread t has read, or reads in this step
ClockRead(t) == IF pc[t] = "get3" THEN call[t].time ELSE now

\* ------------------------------------------------------- wait_for_result
\* the two implementations: XfyunASR (xfyun_asr.py) and XfyunASRResult
\* (xfyun_asr_result.py)
WaitImpls == {"XfyunASR", "XfyunASRResult"}

\* the clock values the model follows: two waits, one after the other, each
\* up to the second after its deadline
Horizon == 2 * (MaxTimeout + 2)

\* what a getProgress request can come to: a progress dict with a status
\* (9 done, 0 and 3 in progress, -1 failed), a progress dict without a
\* status, a failure reply, or an exception raised by requests.post
ProgressReplies ==
    [kind : {"status"}, status : {9, 3, 0, -1}]
    \cup [kind : {"no_status", "not_ok", "exception"}, status : {-1}]

\* what a getResult request can come to
ResultReplies == {"data", "not_ok", "exception"}

Raised == <<"Exception">>
Segments == <<"list", "segments">>
EmptyList == <<"list", "empty">>
Transcript == <<"str", "text">>

\* the loop condition of wait_for_result: True when the wait gives up
DeadlineNever(impl, elapsed, timeout) == FALSE

DeadlinePassedLate(impl, elapsed, timeout) == elapsed > timeout + 1

DeadlinePassed(impl, elapsed, timeout) ==
    IF impl = "XfyunASR" THEN elapsed > timeout ELSE ~(elapsed < timeout)

\* get_progress: the progress value wait_for_result receives; "raise" when
\* the exception of requests.post is not caught
GetProgress(impl, reply) ==
    IF impl = "XfyunASR"
    THEN CASE reply.kind = "status" -> [kind |-> "dict", status |-> reply.status]
           [] reply.kind = "no_status" -> [kind |-> "dict", status |-> -1]
           [] reply.kind = "not_ok" -> [kind |-> "dict", status |-> -1]
           [] OTHER -> [kind |-> "raise", status |-> -1]
    ELSE CASE reply.kind = "status" -> [kind |-> "dict", status |-> reply.status]
           [] reply.kind = "no_status" -> [kind |-> "dict_no_status", status |-> -1]
           [] OTHER -> [kind |-> "None", status |-> -1]

\* get_result: the value wait_for_result returns once the status is 9
GetResultLegacy(impl, reply) ==
    IF impl = "XfyunASR"
    THEN CASE reply = "data" -> Segments
           [] reply = "not_ok" -> EmptyList
           [] OTHER -> Raised
    ELSE IF reply = "data" THEN Transcript ELSE NoneVal

\* wait_for_result returns (or raises) ret
WaitFinish(cause, ret) ==
    /\ wpc' = "done"
    /\ wait' = [wait EXCEPT !.cause = cause, !.ret = ret,
                            !.tested = -1, !.sleeps = 0]

\* the locals after a progress query that reported status
Observed(status) ==
    [wait EXCEPT !.polled = TRUE, !.seen = status, !.tested = -1, !.sleeps = 0]

\* a caller calls wait_for_result(task_id, interval, timeout):
\* start_time = time.time()
WaitCall(impl, timeout, interval) ==
    /\ wpc = "idle"
    /\ now + timeout < Horizon
    /\ wpc' = "deadline"
    /\ wait' = [NoWait EXCEPT !.impl = impl, !.start_time = now,
                              !.timeout = timeout, !.interval = interval]
    /\ UNCHANGED <<v2, submit, now, wlast>>

\* the head of the loop: the deadline test
WaitCheck ==
    /\ wpc = "deadline"
    /\ IF DeadlinePassed(wait.impl, now - wait.start_time, wait.timeout)
       THEN WaitFinish("timeout", NoneVal)
       ELSE /\ wpc' = "progress"
            /\ wait' = [wait EXCEPT !.tested = now - wait.start_time]
    /\ UNCHANGED <<v2, submit, now, wlast>>

\* progress = self.get_progress(task_id) and the branch on its status
WaitGetProgress(reply) ==
    /\ wpc = "progress"
    /\ LET p == GetProgress(wait.impl, reply) IN
       CASE p.kind = "raise" -> WaitFinish("raised", Raised)
         [] p.kind = "None" ->
              wpc' = "sleep" /\ wait' = Observed(NoProgress)
         [] p.kind = "dict_no_status" -> WaitFinish("raised", Raised)
         [] p.status = 9 ->
              wpc' = "result" /\ wait' = Observed(p.status)
         [] p.status >= 0 ->
              wpc' = "sleep" /\ wait' = Observed(p.status)
         [] OTHER ->
              /\ wpc' = "done"
              /\ wait' = [wait EXCEPT !.cause = "failure", !.ret = NoneVal,
                                      !.seen = p.status, !.tested = -1,
                                      !.sleeps = 0]
    /\ UNCHANGED <<v2, submit, now, wlast>>

\* time.sleep(interval)
WaitSleep ==
    /\ wpc = "sleep"
    /\ now' = IF now + wait.interval > Horizon THEN Horizon
              ELSE now + wait.interval
    /\ wpc' = "deadline"
    /\ wait' = [wait EXCEPT !.sleeps = @ + 1]
    /\ UNCHANGED <<v2, submit, wlast>>

\* return self.get_result(task_id)
WaitGetResult(reply) ==
    /\ wpc = "result"
    /\ \E r \in {GetResultLegacy(wait.impl, reply)} :
          /\ wpc' = "done"
          /\ wait' = [wait EXCEPT !.cause = IF r = Raised THEN "raised"
                                            ELSE "finished",
                                  !.ret = r, !.results = @ + 1]
    /\ UNCHANGED <<v2, submit, now, wlast>>

\* the caller takes the returned value
WaitReturn ==
    /\ wpc = "done"
    /\ wpc' = "idle"
    /\ wlast' = [impl |-> wait.impl, cause |-> wait.cause, ret |-> wait.ret]
    /\ wait' = NoWait
    /\ UNCHANGED <<v2, submit, now>>

\* time.time() advances
WaitTick ==
    /\ now < Horizon
    /\ now' = now + 1
    /\ UNCHANGED <<v2, submit, wt>>

WaitInit == Init /\ max_size = 1 /\ expiration_hours = 1

WaitNext ==
    \/ WaitTick
    \/ \E impl \in WaitImpls, timeout \in 0..MaxTimeout, interval \in 0..MaxInterval :
          WaitCall(impl, timeout, interval)
    \/ WaitCheck
    \/ \E reply \in ProgressReplies : WaitGetProgress(reply)
    \/ WaitSleep
    \/ \E reply \in ResultReplies : WaitGetResult(reply)
    \/ WaitReturn

WaitSpec == WaitInit /\ [][WaitNext]_vars

\* every request returns, the interpreter runs and the clock advances
WaitFairSpec ==
    /\ WaitSpec
    /\ WF_vars(WaitTick)
    /\ WF_vars(WaitCheck)
    /\ WF_vars(\E reply \in ProgressReplies : WaitGetProgress(reply))
    /\ WF_vars(WaitSleep)
    /\ WF_vars(\E reply \in ResultReplies : WaitGetResult(reply))

\* ------------------------------------------------------ SliceIdGenerator
\* the while loop of get_next_slice_id, entered at 1-based position j
RECURSIVE CarryToBacktick(_, _)
CarryToBacktick(ch, j) ==
    IF j < 1 THEN ch
    ELSE IF ch[j] # OrdZ THEN [ch EXCEPT ![j] = ch[j] + 1]
         ELSE CarryToBacktick([ch EXCEPT ![j] = OrdBacktick], j - 1)

RECURSIVE Carry(_, _)
Carry(ch, j) ==
    IF j < 1 THEN ch
    ELSE IF ch[j] # OrdZ THEN [ch EXCEPT ![j] = ch[j] + 1]
         ELSE Carry([ch EXCEPT ![j] = OrdA], j - 1)

\* SliceIdGenerator.get_next_slice_id: the new __ch, which is returned
GetNextSliceIdNoCarry(ch) ==
    IF ch[Len(ch)] # OrdZ THEN [ch EXCEPT ![Len(ch)] = ch[Len(ch)] + 1]
    ELSE [ch EXCEPT ![Len(ch)] = OrdA]

GetNextSliceIdBacktick(ch) == CarryToBacktick(ch, Len(ch))

GetNextSliceId(ch) == Carry(ch, Len(ch))

\* 'aaaaaaaaaa' and 'zzzzzzzzzz'
FirstId == [i \in 1..Width |-> OrdA]
LastId == [i \in 1..Width |-> OrdZ]

\* states of a generator in use: the one that has just returned the
\* identifier ending in n letters z and a y, for n = 0 .. Width - 1
UsedCh(n) ==
    [i \in 1..Width |-> IF i < Width - n THEN OrdA
                        ELSE IF i < Width THEN OrdZ ELSE OrdZ - 1]

UsedStates == {UsedCh(n) : n \in 0..(Width - 1)}

\* sig = SliceIdGenerator() or, for a generator in use, sig as left by its
\* latest call; the first identifier and the latest one are known issued
SliceInit ==
    /\ NewCache /\ max_size = 1 /\ expiration_hours = 1
    /\ NoWaits /\ NoSubmissions /\ NoTexts
    /\ \/ NewGenerator
       \/ \E ch \in UsedStates : sig = ch /\ earlier = {FirstId, ch} /\ issued = <<>>

\* slice_id = sig.get_next_slice_id()
CallGetNextSliceId ==
    /\ Len(issued) < MaxCalls
    /\ sig' = GetNextSliceId(sig)
    /\ issued' = Append(issued, sig')
    /\ UNCHANGED <<v2, wt, up, now, earlier>>

SliceNext == CallGetNextSliceId

SliceSpec == SliceInit /\ [][SliceNext]_vars

\* ------------------------------------------------------------ submission
\* upload_file of XfyunASR (xfyun_asr.py) and of XfyunASRUpload
\* (xfyun_asr_upload.py), and upload_audio and upload_audio_by_url of the
\* V2 module
SubmitImpls == {"XfyunASR", "XfyunASRUpload", "upload_audio",
                "upload_audio_by_url"}
ChunkedImpls == {"XfyunASR", "XfyunASRUpload"}

\* sizes of the submitted file: around every multiple of the piece size
FileSizes ==
    {k * FILE_PIECE_SIZE + r :
       k \in 0..(MaxPieces - 1),
       r \in {0, 1, FILE_PIECE_SIZE \div 2, FILE_PIECE_SIZE - 1}}
    \cup {MaxPieces * FILE_PIECE_SIZE, SizeLimit + 1}

\* sizes of an extracted audio track: empty, or 25 MiB
AudioSizes == {0, 2 * FILE_PIECE_SIZE + FILE_PIECE_SIZE \div 2}

\* what a request can come to: accepted with or without a data field (the
\* task or order id), rejected by the service, an exception raised by
\* requests.post (network failure, timeout), a status other than 200 with a
\* body that is not JSON, or status 200 with a body that is not JSON
Replies == {"ok", "ok_no_data", "rejected", "exception", "http_error",
            "bad_body"}

TaskId == <<"task_id">>

\* slice_num of the prepare request
SliceNumFloor(impl, file_len) ==
    IF impl = "XfyunASR" THEN file_len \div FILE_PIECE_SIZE ELSE 1

SliceNum(impl, file_len) ==
    IF impl = "XfyunASR"
    THEN (file_len \div FILE_PIECE_SIZE)
         + (IF file_len % FILE_PIECE_SIZE = 0 THEN 0 ELSE 1)
    ELSE 1

\* _send_request: what the call comes to for the caller.  "raised": the
\* exception leaves _send_request; "error": the result the method makes up,
\* carrying code / err_no -1 and a message; otherwise the decoded body.
\* XfyunASR calls requests.post outside its try block and never looks at
\* the status code; the other clients wrap the whole exchange.
SendRequest(impl, reply) ==
    CASE reply = "exception" -> IF impl = "XfyunASR" THEN "raised" ELSE "error"
      [] reply \in {"http_error", "bad_body"} -> "error"
      [] OTHER -> reply

\* what the client makes of the reply to a request: "ok", "fail" (the step
\* returns None / False) or "raise" (the exception leaves upload_file).
\* XfyunASR.upload catches every exception and returns False.
ClientSeesAlwaysOk(impl, api, reply) == "ok"

ClientSees(impl, api, reply) ==
    LET result == SendRequest(impl, reply) IN
    CASE result = "raised" ->
           IF api \in {"prepare", "merge"} THEN "raise" ELSE "fail"
      [] result \in {"rejected", "error"} -> "fail"
      [] result = "ok_no_data" ->
           IF api \in {"prepare", "v2_upload"} THEN "fail" ELSE "ok"
      [] OTHER -> "ok"

\* a request as sent, its reply outstanding; len is the size of the file
\* data it carries
Request(api, slice_num, slice_id, offset, len) ==
    [api |-> api, slice_num |-> slice_num, slice_id |-> slice_id,
     offset |-> offset, len |-> len, audioMode |-> "none", audioUrl |-> FALSE,
     fileName |-> FALSE, fileSize |-> 0, duration |-> 0,
     reply |-> "pending", result |-> "pending"]

\* the reply to the outstanding request arrives and _send_request returns
Answered(reply) ==
    [calls EXCEPT ![Len(calls)].reply = reply,
                  ![Len(calls)].result = SendRequest(job.impl, reply)]

\* the parameters XfyunASRV2.upload_file sends with the file
FileRequest(size) ==
    [Request("v2_upload", 0, <<>>, 0, size)
        EXCEPT !.audioMode = "fileStream", !.fileName = TRUE,
               !.fileSize = size, !.duration = size \div 16000]

\* the parameters XfyunASRV2.upload_url sends: no file data
UrlRequestFileStream ==
    [Request("v2_upload", 0, <<>>, 0, 0)
        EXCEPT !.audioMode = "fileStream", !.fileName = TRUE,
               !.fileSize = 10000000, !.duration = 600]

UrlRequest ==
    [Request("v2_upload", 0, <<>>, 0, 0)
        EXCEPT !.audioMode = "urlLink", !.audioUrl = TRUE, !.fileName = TRUE,
               !.fileSize = 10000000, !.duration = 600]

\* if temp_audio_file and os.path.exists(temp_audio_file): os.remove(...)
Removed(t) == IF t = "exists" THEN "removed" ELSE t

\* the position of upload() once _send_request has been called: the call
\* returns when the response is there
UploadSentNoWait == "read"

UploadSent == "await_upload"

\* upload_file returns (or raises) ret, with or without removing the file
SubmitFinish(ret, cleanup) ==
    /\ upc' = "done"
    /\ job' = [job EXCEPT !.ret = ret]
    /\ temp' = IF cleanup THEN Removed(temp) ELSE temp

\* a caller submits a file of the given size, or the URL of one
SubmitCall(impl, video, size) ==
    /\ upc = "idle"
    /\ impl = "upload_audio_by_url" => (~video /\ size = 0)
    /\ job' = [NoJob EXCEPT !.impl = impl, !.video = video, !.size = size]
    /\ calls' = <<>>
    /\ temp' = "none"
    /\ upc' = IF impl = "XfyunASR" /\ size > SizeLimit THEN "done"
              ELSE IF video THEN "extract"
              ELSE IF impl \in ChunkedImpls THEN "prepare" ELSE "v2_upload"
    /\ UNCHANGED <<v2, wt, sl, now>>

\* the audio track is written to a temporary file, of size asize; when
\* that fails, upload_audio may leave a partial file behind
Extract(ok, asize, partial) ==
    /\ upc = "extract"
    /\ IF ok
       THEN /\ temp' = "exists"
            /\ job' = [job EXCEPT !.size = asize]
            /\ upc' = IF job.impl = "upload_audio" THEN "v2_upload" ELSE "prepare"
       ELSE IF job.impl \in ChunkedImpls
            THEN /\ upc' = "done"
                 /\ job' = [job EXCEPT !.ret = NoneVal]
                 /\ temp' = "removed"
            ELSE /\ upc' = "done"
                 /\ job' = [job EXCEPT !.ret = Raised]
                 /\ temp' = IF partial THEN "exists" ELSE "none"
    /\ UNCHANGED <<v2, wt, sl, now, calls>>

\* self.prepare(file_path): the request is sent
PrepareSend ==
    /\ upc = "prepare"
    /\ calls' = Append(calls, Request("prepare", SliceNum(job.impl, job.size),
                                      <<>>, 0, 0))
    /\ upc' = "await_prepare"
    /\ UNCHANGED <<v2, wt, sl, now, job, temp>>

\* the reply to prepare; on success upload() starts: index = 1,
\* sig = SliceIdGenerator()
PrepareReceive(reply) ==
    /\ upc = "await_prepare"
    /\ calls' = Answered(reply)
    /\ LET seen == ClientSees(job.impl, "prepare", reply) IN
       CASE seen = "ok" ->
              /\ upc' = "read"
              /\ job' = [job EXCEPT !.task_id = "task_id", !.index = 1]
              /\ sig' = FreshCh /\ issued' = <<>> /\ earlier' = {}
              /\ UNCHANGED temp
         [] seen = "fail" -> SubmitFinish(NoneVal, TRUE) /\ UNCHANGED sl
         [] OTHER -> SubmitFinish(Raised, FALSE) /\ UNCHANGED sl
    /\ UNCHANGED <<v2, wt, now>>

\* content = file_obj.read(FILE_PIECE_SIZE); at the end of the file upload()
\* returns True, otherwise the piece is sent with the next slice id.
\* XfyunASRUpload sends the whole file as one piece.
ReadPiece ==
    /\ upc = "read"
    /\ LET len == IF job.impl = "XfyunASR"
                  THEN IF job.size - job.offset > FILE_PIECE_SIZE
                       THEN FILE_PIECE_SIZE ELSE job.size - job.offset
                  ELSE job.size
           more == IF job.impl = "XfyunASR" THEN len > 0 ELSE job.index = 1
       IN IF more
          THEN /\ sig' = GetNextSliceId(sig)
               /\ issued' = Append(issued, sig')
               /\ calls' = Append(calls, Request("upload", 0, sig', job.offset, len))
               /\ upc' = UploadSent
               /\ UNCHANGED earlier
          ELSE /\ upc' = "merge"
               /\ UNCHANGED <<sl, calls>>
    /\ UNCHANGED <<v2, wt, now, job, temp>>

\* the reply to the outstanding upload of a piece
UploadReceive(reply) ==
    /\ upc \in {"await_upload", "read"}
    /\ calls # <<>> /\ calls[Len(calls)].reply = "pending"
    /\ calls[Len(calls)].api = "upload"
    /\ calls' = Answered(reply)
    /\ IF ClientSees(job.impl, "upload", reply) = "ok"
       THEN /\ job' = [job EXCEPT !.offset = @ + calls[Len(calls)].len,
                                  !.index = @ + 1]
            /\ upc' = IF job.impl = "XfyunASR" THEN "read" ELSE "merge"
            /\ UNCHANGED temp
       ELSE SubmitFinish(NoneVal, TRUE)
    /\ UNCHANGED <<v2, wt, sl, now>>

\* self.merge(task_id, file_path): the request is sent
MergeSend ==
    /\ upc = "merge"
    /\ calls' = Append(calls, Request("merge", 0, <<>>, 0, 0))
    /\ upc' = "await_merge"
    /\ UNCHANGED <<v2, wt, sl, now, job, temp>>

\* the reply to merge
MergeReceive(reply) ==
    /\ upc = "await_merge"
    /\ calls' = Answered(reply)
    /\ LET seen == ClientSees(job.impl, "merge", reply) IN
       CASE seen = "ok" -> SubmitFinish(TaskId, TRUE)
         [] seen = "fail" -> SubmitFinish(NoneVal, TRUE)
         [] OTHER -> SubmitFinish(Raised, FALSE)
    /\ UNCHANGED <<v2, wt, sl, now>>

\* upload_audio: client.upload_file(file_path) sends the file in one
\* request; upload_audio_by_url: asr.upload_url(audio_url) sends the URL
V2UploadSend ==
    /\ upc = "v2_upload"
    /\ calls' = Append(calls, IF job.impl = "upload_audio_by_url"
                              THEN UrlRequest ELSE FileRequest(job.size))
    /\ upc' = "await_v2"
    /\ UNCHANGED <<v2, wt, sl, now, job, temp>>

\* the reply: upload_audio returns the order id or raises;
\* upload_audio_by_url returns what upload_url returned, the order id or None
V2UploadReceive(reply) ==
    /\ upc = "await_v2"
    /\ calls' = Answered(reply)
    /\ IF ClientSees(job.impl, "v2_upload", reply) = "ok"
       THEN SubmitFinish(TaskId, FALSE)
       ELSE IF job.impl = "upload_audio_by_url"
            THEN SubmitFinish(NoneVal, FALSE)
            ELSE SubmitFinish(Raised, FALSE)
    /\ UNCHANGED <<v2, wt, sl, now>>

\* the caller takes the returned value
SubmitReturn ==
    /\ upc = "done"
    /\ upc' = "idle"
    /\ UNCHANGED <<v2, wt, sl, now, job, calls, temp>>

SubmitInit == Init /\ max_size = 1 /\ expiration_hours = 1

SubmitNext ==
    \/ \E impl \in SubmitImpls, video \in BOOLEAN, size \in FileSizes :
          SubmitCall(impl, video, size)
    \/ \E ok \in BOOLEAN, asize \in AudioSizes, partial \in BOOLEAN :
          Extract(ok, asize, partial)
    \/ PrepareSend
    \/ \E reply \in Replies : PrepareReceive(reply)
    \/ ReadPiece
    \/ \E reply \in Replies : UploadReceive(reply)
    \/ MergeSend
    \/ \E reply \in Replies : MergeReceive(reply)
    \/ V2UploadSend
    \/ \E reply \in Replies : V2UploadReceive(reply)
    \/ SubmitReturn

SubmitSpec == SubmitInit /\ [][SubmitNext]_vars

\* ---------------------------------------------------- the cache's contract
\* time-to-live in seconds
TTL == expiration_hours * SecondsPerHour

\* the step is a completed call of operation op (the clock stands still
\* while a call is made)
Called(op) == last'.op = op /\ now' = now

\* the (status, result) pair of the entry of id
PairOf(c, id) == <<Entry(c, id).status, Entry(c, id).result>>

\* every key of c2 is a key of c1 with the same status, result and timestamp
SameEntries(c1, c2) ==
    \A k \in Keys(c2) : Contains(c1, k) /\ Entry(c1, k) = Entry(c2, k)

\* C1: every stored entry has a terminal status, and a set whose status is
\* not terminal leaves the mapping unchanged.
C1_StoredAreTerminal == \A i \in 1..Len(cache) : cache[i].status \in TerminalStatuses

C1_NonTerminalSetIsNoop ==
    (Called("set") /\ last'.status \notin TerminalStatuses) => cache' = cache

C1_OnlyTerminalCached == []C1_StoredAreTerminal /\ [][C1_NonTerminalSetIsNoop]_vars

\* a set with status 'processing' was made on a cache that holds entries
C1_Witness == last.op = "set" /\ last.status = "processing" /\ Len(cache) > 0

\* a get follows, with no time passed, a set of the same id with status s
GetRightAfterSet(statuses) ==
    /\ last.op = "set" /\ last.status \in statuses /\ last.time = now
    /\ Called("get") /\ last'.order_id = last.order_id

\* C2 (as stated): get(id) right after set(id, 'processing', x) returns
\* None, whether or not id was cached before.
C2_GetAfterProcessingIsNone ==
    [][GetRightAfterSet({"processing"}) => last'.ret = NoneVal]_vars

\* C2 (amended): get(id) right after set(id, 'processing', x) returns None
\* when id was not cached, or was expired, before the set; when id was
\* cached and unexpired it returns the pair cached before the set.
C2_GetAfterProcessingIsPrior ==
    [][GetRightAfterSet({"processing"}) =>
         IF last.age = -1 \/ last.age > TTL
         THEN last'.ret = NoneVal
         ELSE /\ Contains(cache, last.order_id)
              /\ Entry(cache, last.order_id).timestamp = now - last.age
              /\ last'.ret = PairOf(cache, last.order_id)]_vars

\* get(id) returned None right after set(id, 'processing', x) on a cache
\* that held other entries but not id
C2_Witness ==
    /\ last.op = "get" /\ last.prev = "processing"
    /\ last.ret = NoneVal /\ last.age = -1 /\ Len(cache) > 0

\* C3: set is a no-op exactly when the status is not terminal; for each of
\* 'completed', 'failed', 'not_found' the entry is stored and an immediately
\* following get returns (status, r).
C3_SetStep ==
    Called("set") =>
        IF last'.status \in TerminalStatuses
        THEN /\ Contains(cache', last'.order_id)
             /\ PairOf(cache', last'.order_id) = <<last'.status, last'.result>>
        ELSE cache' = cache

C3_GetStep ==
    GetRightAfterSet(TerminalStatuses) => last'.ret = <<last.status, last.result>>

C3_SetStoresTerminal == [][C3_SetStep /\ C3_GetStep]_vars

\* C4: a set with a terminal status of a new id on a cache holding max_size
\* entries removes exactly one entry, one with the smallest timestamp, and
\* every other entry and the new one are returned by get afterwards.
C4_SetStep ==
    (/\ Called("set") /\ last'.status \in TerminalStatuses
     /\ Len(cache) = max_size /\ ~Contains(cache, last'.order_id)) =>
        /\ Cardinality(Keys(cache) \ Keys(cache')) = 1
        /\ \A k \in Keys(cache) \ Keys(cache') :
              \A j \in Keys(cache) : Entry(cache, k).timestamp <= Entry(cache, j).timestamp
        /\ \A k \in Keys(cache) \cap Keys(cache') :
              CacheGet(cache', k, now).ret = PairOf(cache, k)
        /\ CacheGet(cache', last'.order_id, now).ret = <<last'.status, last'.result>>

C4_EvictsOldest == [][C4_SetStep]_vars

\* C5: the number of entries never exceeds max_size.
C5_SizeBounded == Len(cache) <= max_size

\* C6: get returns an entry stored at time T at every time t with
\* t - T < TTL and does not return it at any time t with t - T > TTL.
C6_GetStep ==
    (Called("get") /\ Contains(cache, last'.order_id)) =>
        LET e == Entry(cache, last'.order_id) IN
        /\ (now - e.timestamp < TTL) => last'.ret = <<e.status, e.result>>
        /\ (now - e.timestamp > TTL) => last'.ret = NoneVal

C6_Expiration == [][C6_GetStep]_vars

\* a get was made of an entry older than the time-to-live
C6_Witness == last.op = "get" /\ last.age > TTL /\ last.ret = NoneVal

\* C7: get on an expired entry deletes exactly that entry and returns None;
\* get on an absent id or an unexpired entry leaves the mapping unchanged.
C7_GetStep ==
    Called("get") =>
        IF Contains(cache, last'.order_id)
           /\ now - Entry(cache, last'.order_id).timestamp > TTL
        THEN /\ Keys(cache') = Keys(cache) \ {last'.order_id}
             /\ SameEntries(cache, cache')
             /\ last'.ret = NoneVal
        ELSE cache' = cache

C7_LazyExpiration == [][C7_GetStep]_vars

\* a get removed an expired entry and another entry is still stored
C7_Witness ==
    /\ last.op = "get" /\ last.age > TTL
    /\ ~Contains(cache, last.order_id) /\ Len(cache) > 0

\* C8: at most one thread is inside a cache operation at a time, and every
\* call leaves the mapping, and returns the value, that the call made alone
\* on the mapping found when it took the lock would have produced.
C8_MutualExclusion == Cardinality({t \in Threads : pc[t] \in BodyPcs}) <= 1

C8_AtomicEffect ==
    \A t \in Threads :
        (pc[t] \in BodyPcs /\ pc'[t] = "done") =>
            /\ cache' = SeqCache(call[t], snap[t], ClockRead(t))
            /\ call'[t].ret = SeqRet(call[t], snap[t], ClockRead(t))

C8_CallsAreAtomic == []C8_MutualExclusion /\ [][C8_AtomicEffect]_vars

\* one thread is between the eviction and the insertion of set while the
\* other waits for the lock
C8_Witness ==
    \E t, u \in Threads :
        /\ pc[t] = "set3" /\ Len(cache) < Len(snap[t])
        /\ pc[u] = "acquire"

\* the step is a completed poll
Polled == last'.op \in PollOps /\ now' = now

\* the cache holds an entry of id that is not expired
HoldsUnexpired(c, id) == Contains(c, id) /\ ~(now - Entry(c, id).timestamp > TTL)

\* C9 (as stated): a poll of a job whose entry is cached and unexpired
\* returns that entry's (status, result) pair and issues no remote request.
C9_HitStep ==
    (Polled /\ HoldsUnexpired(cache, last'.order_id)) =>
        /\ last'.ret = PairOf(cache, last'.order_id)
        /\ last'.requests = 0

C9_CacheHitReturnsEntry == [][C9_HitStep]_vars

\* C9 (amended): the same, for a poll made with the cache enabled or with
\* credentials available.
C9_HitStepWithAccess ==
    (/\ Polled /\ HoldsUnexpired(cache, last'.order_id)
     /\ (last'.use_cache \/ last'.creds)) =>
        /\ last'.ret = PairOf(cache, last'.order_id)
        /\ last'.requests = 0

C9_CacheHitWithAccess == [][C9_HitStepWithAccess]_vars

\* a poll with the cache disabled was answered from the cache
C9_Witness ==
    /\ last.op = "get_transcription_result" /\ ~last.use_cache /\ last.creds
    /\ last.requests = 0 /\ HoldsUnexpired(cache, last.order_id)
    /\ last.ret = PairOf(cache, last.order_id)

\* C10: after a poll that queried the remote service and returned a terminal
\* status, an immediately repeated poll of the same job (cache enabled)
\* returns the same pair without a remote request.
C10_RepeatStep ==
    (Polled /\ last'.prev \in TerminalStatuses /\ last'.use_cache) =>
        /\ last'.ret = last.ret
        /\ last'.requests = 0

C10_TerminalOutcomeCached == [][C10_RepeatStep]_vars

\* the poll of this step was told by the remote service that the order is
\* created, queued, uploading or processing
ToldInProgress == Polled /\ last'.reported \in ProgressCodes

\* C11 (as stated): a poll that is told an order status 0, 1, 2 or 3 returns
\* ('processing', None) and leaves the cache unchanged.
C11_ProgressStep ==
    ToldInProgress =>
        /\ last'.ret = <<"processing", "None">>
        /\ cache' = cache

C11_ProgressLeavesCache == [][C11_ProgressStep]_vars

\* C11 (amended): such a poll returns ('processing', None), stores nothing
\* and changes no entry; the only entry it may remove is an expired entry
\* of the polled job.
C11_ProgressStepLazy ==
    ToldInProgress =>
        /\ last'.ret = <<"processing", "None">>
        /\ Keys(cache') =
              Keys(cache) \ {k \in {last'.order_id} :
                                Contains(cache, k) /\ ~HoldsUnexpired(cache, k)}
        /\ SameEntries(cache, cache')

C11_ProgressStoresNothing == [][C11_ProgressStepLazy]_vars

\* a poll was told that the order is created (0) while another job's entry
\* was cached
C11_Witness ==
    /\ last.op \in PollOps /\ last.reported = 0
    /\ last.ret = <<"processing", "None">> /\ Len(cache) > 0

\* the call recorded in l was a poll that returned a status
ReturnedStatus(l) == l.op \in PollOps /\ Len(l.ret) = 2

\* C12: once a poll of a job has returned a terminal status, every later
\* poll of that job returns the same status.  Stated for each poll and the
\* next poll of the same job, however much time passes between the two.
C12_NextPollStep ==
    (/\ ReturnedStatus(last) /\ last.ret[1] \in TerminalStatuses
     /\ ReturnedStatus(last') /\ last'.order_id = last.order_id) =>
        last'.ret[1] = last.ret[1]

C12_TerminalIsFinal == [][C12_NextPollStep]_vars

\* C13: every call of wait_for_result comes to an end, whatever the remote
\* service answers, provided the requests return and the clock advances.
C13_WaitReturns == (wpc \in {"deadline", "progress", "sleep", "result"}) ~> (wpc = "done")

\* a wait has given up at its deadline after a progress query
C13_Witness ==
    /\ wpc = "done" /\ wait.cause = "timeout" /\ wait.polled
    /\ now - wait.start_time > wait.timeout

\* C14: the value wait_for_result returns on a timeout differs from the
\* value it returns when the remote service reports a failure.
C14_TimeoutDistinct ==
    (/\ wpc = "done" /\ wait.impl = wlast.impl
     /\ wait.cause = "timeout" /\ wlast.cause = "failure") =>
        wait.ret # wlast.ret

\* the remote service, or the transport, failed request c
Failed(c) ==
    \/ c.reply \in {"rejected", "exception", "http_error", "bad_body"}
    \/ c.api = "prepare" /\ c.reply = "ok_no_data"

\* request c was answered and did not fail
Succeeded(c) == c.reply # "pending" /\ ~Failed(c)

\* C15: in a chunked submission no upload is issued unless prepare returned
\* a task id, nothing is sent after a failed request, merge is issued only
\* after every piece was uploaded, and a submission with a failed step
\* returns no task id.
C15_FailedStepAborts ==
    job.impl \in ChunkedImpls =>
        /\ \A i \in 1..Len(calls) :
              calls[i].api \in {"upload", "merge"} =>
                  /\ calls[1].api = "prepare" /\ Succeeded(calls[1])
                  /\ job.task_id # "None"
        /\ \A i, j \in 1..Len(calls) : i < j => Succeeded(calls[i])
        /\ \A i \in 1..Len(calls) :
              calls[i].api = "merge" =>
                  /\ job.offset = job.size
                  /\ \A j \in 2..(i - 1) : calls[j].api = "upload"
        /\ (upc = "done" /\ job.ret = TaskId) =>
              /\ calls # <<>> /\ calls[Len(calls)].api = "merge"
              /\ \A i \in 1..Len(calls) : Succeeded(calls[i])

\* a submission gave up after the second piece was rejected: no third
\* piece, no merge, no task id
C15_Witness ==
    /\ upc = "done" /\ job.impl = "XfyunASR" /\ job.ret = NoneVal
    /\ job.size > 2 * FILE_PIECE_SIZE
    /\ Len(calls) = 3 /\ calls[3].api = "upload" /\ calls[3].reply = "rejected"

\* the least n with n * p >= s
CeilDiv(s, p) ==
    CHOOSE n \in 0..(s \div p + 1) : n * p >= s /\ (n - 1) * p < s

\* C16: a fully successful chunked submission of s bytes declares
\* slice_num = ceil(s / FILE_PIECE_SIZE) in prepare, then issues exactly
\* that many upload calls, then exactly one merge call.
C16_PieceCount ==
    (upc = "done" /\ job.impl = "XfyunASR" /\ job.ret = TaskId) =>
        LET n == CeilDiv(job.size, FILE_PIECE_SIZE) IN
        /\ Len(calls) = n + 2
        /\ calls[1].api = "prepare" /\ calls[1].slice_num = n
        /\ \A i \in 2..(n + 1) : calls[i].api = "upload"
        /\ calls[n + 2].api = "merge"

\* 25 MiB were submitted: 3 upload calls, then 1 merge
C16_Witness ==
    /\ upc = "done" /\ job.impl = "XfyunASR" /\ job.ret = TaskId
    /\ job.size = 2 * FILE_PIECE_SIZE + FILE_PIECE_SIZE \div 2
    /\ Len(calls) = 5 /\ calls[4].api = "upload" /\ calls[5].api = "merge"

\* x comes before y in odometer order: at the first position where they
\* differ, x has the smaller letter
OdometerLess(x, y) ==
    \E j \in 1..Width :
        /\ x[j] < y[j]
        /\ \A i \in 1..(j - 1) : x[i] = y[i]

\* the fixed-width base-26 numeral of n over 'a'..'z', w letters wide
RECURSIVE Numeral(_, _)
Numeral(n, w) ==
    IF w = 0 THEN <<>> ELSE Append(Numeral(n \div 26, w - 1), OrdA + (n % 26))

\* the number a sequence of letters denotes
RECURSIVE Value(_)
Value(ch) ==
    IF ch = <<>> THEN 0
    ELSE 26 * Value(SubSeq(ch, 1, Len(ch) - 1)) + (ch[Len(ch)] - OrdA)

\* the value of ch and of its successor fit the integers of the model
Fits(ch) == \A i \in 1..4 : ch[i] = OrdA

\* the step is a call of get_next_slice_id
SliceCalled == issued' # issued

\* the generator has returned an identifier before this step
HasPrevious == sig # FreshCh

\* C17 (as stated): the k-th identifier of a fresh generator is the
\* 10-letter base-26 numeral of k-1, and every identifier is greater, in
\* odometer order, than the one returned before it.
C17_OdometerStep ==
    SliceCalled =>
        /\ earlier = {} => sig' = Numeral(Len(issued), Width)
        /\ HasPrevious => OdometerLess(sig, sig')

C17_Odometer == [][C17_OdometerStep]_vars

\* C17 (amended): the same for the first 26^10 identifiers, that is until
\* 'zzzzzzzzzz' has been returned: up to there each identifier denotes the
\* number of its predecessor plus one; the next one is 'aaaaaaaaaa' again.
C17_OdometerStepUntilLast ==
    SliceCalled =>
        /\ earlier = {} => sig' = Numeral(Len(issued), Width)
        /\ (HasPrevious /\ sig # LastId) => OdometerLess(sig, sig')
        /\ Fits(sig) => sig' = Numeral(Value(sig) + 1, Width)
        /\ sig = LastId => sig' = FirstId

C17_OdometerUntilLast == [][C17_OdometerStepUntilLast]_vars

\* a fresh generator has returned its 27th identifier, 'aaaaaaaaba'
C17_Witness ==
    /\ earlier = {} /\ Len(issued) = 27
    /\ sig = [FirstId EXCEPT ![Width - 1] = OrdA + 1]

\* the identifiers returned before this step
IssuedBefore == {issued[i] : i \in 1..Len(issued)} \cup earlier

\* C18 (as stated): no call returns an identifier that an earlier call on
\* the same generator has returned.
C18_NeverTwice == [][SliceCalled => sig' \notin IssuedBefore]_vars

\* C18 (amended): the same for the first 26^10 calls, that is for every
\* call made before 'zzzzzzzzzz' has been returned.
C18_NeverTwiceUntilLast ==
    [][(SliceCalled /\ sig # LastId) => sig' \notin IssuedBefore]_vars

\* a generator in use has carried over eight letters: 'azzzzzzzzz' was
\* followed by 'baaaaaaaaa'
C18_Witness ==
    /\ Len(issued) >= 2 /\ earlier # {}
    /\ issued[1] = [LastId EXCEPT ![1] = OrdA]
    /\ issued[2] = [FirstId EXCEPT ![1] = OrdA + 1]

\* C19: at most one request of a submission is in flight, a piece is sent
\* only after the replies to all earlier requests have arrived, and the
\* pieces are sent in file order, each starting where the one before ended.
C19_PiecesSequential ==
    /\ Cardinality({i \in 1..Len(calls) : calls[i].reply = "pending"}) <= 1
    /\ \A i \in 1..(Len(calls) - 1) : calls[i].reply # "pending"
    /\ \A i \in 1..Len(calls) :
          calls[i].api = "upload" =>
              calls[i].offset =
                  IF i > 1 /\ calls[i - 1].api = "upload"
                  THEN calls[i - 1].offset + calls[i - 1].len ELSE 0
    /\ \A i, j \in 1..Len(calls) :
          (i < j /\ calls[i].api = "upload" /\ calls[j].api = "upload") =>
              OdometerLess(calls[i].slice_id, calls[j].slice_id)

\* the third piece is in flight, the first two have been answered
C19_Witness ==
    /\ upc = "await_upload" /\ Len(calls) = 4
    /\ calls[4].reply = "pending" /\ calls[4].offset = 2 * FILE_PIECE_SIZE
    /\ calls[3].reply = "ok"

\* C20: when a submission has extracted a temporary audio file, the file
\* no longer exists when the submission returns or raises.
C20_TempRemoved == (upc = "done" /\ temp # "none") => temp = "removed"

C22_IdOrRaise ==
    (upc = "done" /\ job.impl \in {"upload_audio", "upload_audio_by_url"}) =>
        job.ret \in {TaskId, Raised}

\* C23: _send_request of XfyunASRV2 and of XfyunASR turns a network failure,
\* a status other than 200 and a body that is not JSON into a returned error
\* result; no exception leaves it.
C23_FailuresReturned ==
    \A i \in 1..Len(calls) :
        (/\ job.impl \in {"XfyunASR", "upload_audio", "upload_audio_by_url"}
         /\ calls[i].reply \in {"exception", "http_error", "bad_body"}) =>
            calls[i].result = "error"

\* C26: a poll that is told the order is finished (order status 4) returns
\* 'completed', whatever the result payload is.
C26_FinishedIsCompleted ==
    (last.op \in PollOps /\ last.reported = 4) => last.ret[1] = "completed"

\* C30: a poll that returns 'failed' or 'not_found' returns a reason with
\* it: the second component of the pair is not None.
C30_FailureHasReason ==
    (ReturnedStatus(last) /\ last.ret[1] \in {"failed", "not_found"}) =>
        last.ret[2] # "None"

\* the payload shapes in the priority order of the specification
Priority == <<"text", "lattice", "lattice2", "nbest", "result">>

\* the text a list of entries carries: the characters of every well-formed
\* entry in order, of its first segment (lattice) or of all its segments
\* (lattice2)
RECURSIVE EntriesText(_, _)
EntriesText(items, all) ==
    IF items = <<>> THEN ""
    ELSE (IF Head(items).kind \in {"str", "dict", "two_rt"}
          THEN Head(items).w \o (IF all THEN Head(items).w2 ELSE "")
          ELSE "")
         \o EntriesText(Tail(items), all)

\* the text shape k of the decoded payload c yields, "" when it yields none
ShapeText(c, k) ==
    IF k \notin DOMAIN c THEN ""
    ELSE CASE k = "text" -> c[k]
           [] k = "lattice" -> EntriesText(c[k], FALSE)
           [] k = "lattice2" -> EntriesText(c[k], TRUE)
           [] k = "nbest" -> IF c[k] # <<>> /\ c[k][1].kind # "other"
                             THEN c[k][1].s ELSE ""
           [] k = "result" -> IF c[k].kind # "other" THEN c[k].s ELSE ""

\* _parse_result_v2 has returned from a payload that is a non-empty dict
\* (or the JSON string of one)
ParsedDict ==
    /\ parsed.fn = "_parse_result_v2" /\ parsed.done
    /\ (parsed.arg.type = "dict" \/ parsed.arg.json_ok)
    /\ DOMAIN parsed.arg.content # {}

\* _parse_result has returned from a response whose content decodes and
\* has a lattice
ParsedLegacyLattice ==
    /\ parsed.fn = "_parse_result" /\ parsed.done
    /\ "content" \in DOMAIN parsed.arg /\ parsed.arg.content.json_ok
    /\ "lattice" \in DOMAIN parsed.arg.content

NothingYields ==
    \/ /\ ParsedDict
       /\ \A i \in 1..Len(Priority) :
             ShapeText(parsed.arg.content, Priority[i]) = ""
    \/ /\ parsed.fn = "_parse_result"
       /\ ~ParsedLegacyLattice
          \/ EntriesText(parsed.arg.content.lattice, FALSE) = ""

\* C25: a parser that finds no text in any shape returns a marker string
\* (never the empty string, never an exception).
C25_SentinelWhenNoText ==
    (parsed.fn # "none" /\ parsed.done /\ NothingYields) =>
        parsed.ret \in {NoTextExtracted, ParseFailed}

\* the list has an entry whose json_1best is missing or not JSON, or that
\* lacks a nested field
HasMalformed(items) ==
    \E i \in 1..Len(items) :
        items[i].kind \in {"bad_json", "no_json_1best", "no_st", "no_ws"}

\* C27: a malformed entry of a lattice or lattice2 list is skipped: when the
\* list is the first shape to be read, the parser returns the text of the
\* well-formed entries before and after it, in order.
C27_MalformedSkipped ==
    /\ (/\ ParsedLegacyLattice
        /\ HasMalformed(parsed.arg.content.lattice)
        /\ EntriesText(parsed.arg.content.lattice, FALSE) # "") =>
           parsed.ret = EntriesText(parsed.arg.content.lattice, FALSE)
    /\ \A k \in {"lattice", "lattice2"} :
           (/\ ParsedDict /\ k \in DOMAIN parsed.arg.content
            /\ HasMalformed(parsed.arg.content[k])
            /\ ShapeText(parsed.arg.content, k) # ""
            /\ \A h \in (IF k = "lattice" THEN {"text"} ELSE {"text", "lattice"}) :
                  ShapeText(parsed.arg.content, h) = "") =>
               parsed.ret = ShapeText(parsed.arg.content, k)

\* the speaker of a segment: "0" when it has no speaker tag
SpeakerOf(seg) == IF seg.speaker = "none" THEN "0" ELSE seg.speaker

\* the speakers that occur in a transcript
SpeakersOf(data) == {SpeakerOf(data[i]) : i \in 1..Len(data)}

\* the segment texts among the pieces of a rendered text, in order
TextsIn(toks) ==
    LET texts == SelectSeq(toks, LAMBDA tok : tok.t = "text")
    IN [i \in 1..Len(texts) |-> texts[i].v]

\* toks is a run of texts joined by one and the same separator
PlainJoin(toks) ==
    /\ Len(toks) % 2 = 1
    /\ \A i \in 1..Len(toks) :
          toks[i].t = (IF i % 2 = 1 THEN "text" ELSE "sep")
    /\ \A i, j \in 1..Len(toks) :
          (toks[i].t = "sep" /\ toks[j].t = "sep") => toks[i].v = toks[j].v

\* C28: a transcript of one speaker whose segments all have text is
\* rendered without a label as the texts of its segments in ascending bg
\* order, joined by one plain separator.
C28_SingleSpeakerSorted ==
    (/\ shown.impl # "none" /\ shown.done /\ shown.data # <<>>
     /\ Cardinality(SpeakersOf(shown.data)) = 1
     /\ \A i \in 1..Len(shown.data) : shown.data[i].onebest # "") =>
        /\ PlainJoin(shown.ret)
        /\ \E order \in [1..Len(shown.data) -> 1..Len(shown.data)] :
              /\ \A i, j \in 1..Len(shown.data) : i # j => order[i] # order[j]
              /\ \A i, j \in 1..Len(shown.data) :
                    i < j => shown.data[order[i]].bg <= shown.data[order[j]].bg
              /\ TextsIn(shown.ret)
                    = [i \in 1..Len(shown.data) |-> shown.data[order[i]].onebest]

\* the texts of the segments of speaker sp, in transcript order
TextsOf(data, sp) ==
    LET own == SelectSeq(data, LAMBDA seg : SpeakerOf(seg) = sp)
    IN [i \in 1..Len(own) |-> own[i].onebest]

\* the speakers of a transcript in the order of their first segment
RECURSIVE FirstSeen(_)
FirstSeen(data) ==
    IF data = <<>> THEN <<>>
    ELSE LET before == FirstSeen(SubSeq(data, 1, Len(data) - 1))
             sp == SpeakerOf(data[Len(data)])
         IN IF \E i \in 1..Len(before) : before[i] = sp
            THEN before ELSE Append(before, sp)

\* the positions of the labels among the pieces of a rendered text
LabelsAt(toks) == {i \in 1..Len(toks) : toks[i].t = "label"}

\* the texts of the block whose label stands at position i
BlockTexts(toks, i) ==
    LET later == {j \in LabelsAt(toks) : j > i}
        end == IF later = {} THEN Len(toks)
               ELSE (CHOOSE j \in later : \A k \in later : j <= k) - 1
    IN TextsIn(SubSeq(toks, i + 1, end))

\* the texts of a sequence that are not empty
Visible(texts) == SelectSeq(texts, LAMBDA v : v # "")

\* C29: a transcript of several speakers is rendered as one labelled block
\* per speaker, the blocks in the order in which the speakers first occur
\* in the transcript, each block holding all and only the texts of its
\* speaker in transcript order.  Stated for transcripts listed in ascending
\* bg order, where transcript order and time order are the same, and up to
\* texts that are empty.
C29_BlocksInFirstSeenOrder ==
    (/\ shown.impl # "none" /\ shown.done
     /\ Cardinality(SpeakersOf(shown.data)) > 1
     /\ \A i, j \in 1..Len(shown.data) :
           i < j => shown.data[i].bg <= shown.data[j].bg) =>
        LET labels == SelectSeq(shown.ret, LAMBDA tok : tok.t = "label")
        IN /\ [i \in 1..Len(labels) |-> labels[i].v] = FirstSeen(shown.data)
           /\ shown.ret # <<>> /\ shown.ret[1].t = "label"
           /\ \A i \in LabelsAt(shown.ret) :
                 Visible(BlockTexts(shown.ret, i))
                     = Visible(TextsOf(shown.data, shown.ret[i].v))

\* ----------------------------------------------- the cache under the polls
\* the step is a completed call of get_transcription_result
ModulePolled == Polled /\ last'.op = "get_transcription_result"

\* C32: a poll with use_cache = false issues one remote status query,
\* returns the outcome of that query and leaves the cache as it was,
\* whatever the cache holds.
C32_NoCacheStep ==
    (ModulePolled /\ ~last'.use_cache /\ last'.creds) =>
        /\ last'.requests = 1
        /\ cache' = cache

C32_UseCacheFalseBypasses == [][C32_NoCacheStep]_vars

\* C33: a poll made without credentials raises the validation error and
\* returns no status, whatever the cache holds.
C33_NoCredsStep ==
    (ModulePolled /\ ~last'.creds) => last'.ret = ValueError

C33_CredentialsRequired == [][C33_NoCredsStep]_vars

\* C35: set removes an entry only when storing the new entry would make the
\* number of entries exceed max_size; a set of an id that is cached removes
\* no other entry, even when the cache is full.
C35_SetStep ==
    Called("set") =>
        /\ (Keys(cache) \ Keys(cache') # {}) =>
              (Cardinality(Keys(cache) \cup {last'.order_id}) > max_size)
        /\ Contains(cache, last'.order_id) => (Keys(cache) \subseteq Keys(cache'))

C35_EvictsOnlyOnOverflow == [][C35_SetStep]_vars

\* every entry of c1 other than that of id is held by c2, unchanged, except
\* for the entries whose ids are in gone, which c2 does not hold
OthersKept(c1, c2, id, gone) ==
    \A i \in 1..Len(c1) :
        \/ c1[i].order_id = id
        \/ IF c1[i].order_id \in gone
           THEN \A j \in 1..Len(c2) : c2[j].order_id # c1[i].order_id
           ELSE \E j \in 1..Len(c2) : c2[j] = c1[i]

\* every entry of c2 other than that of id is an entry of c1
NoOthersAdded(c1, c2, id) ==
    \A j \in 1..Len(c2) :
        c2[j].order_id = id \/ \E i \in 1..Len(c1) : c1[i] = c2[j]

\* C37: get(a) changes and removes no entry of another id; set(a, ...)
\* leaves the status, result and timestamp of every entry of another id as
\* they were and removes at most one of them, the entry chosen by eviction.
C37_GetStep ==
    (cache' # cache /\ Called("get")) =>
        /\ OthersKept(cache, cache', last'.order_id, {})
        /\ NoOthersAdded(cache, cache', last'.order_id)

C37_SetStep ==
    (cache' # cache /\ Called("set")) =>
        /\ NoOthersAdded(cache, cache', last'.order_id)
        /\ \/ OthersKept(cache, cache', last'.order_id, {})
           \/ /\ Len(cache) > 0
              /\ OthersKept(cache, cache', last'.order_id, {OldestKey(cache)})

C37_OtherIdsUntouched == [][C37_GetStep /\ C37_SetStep]_vars

\* a set has stored a new id next to an older entry of another id, on a
\* cache of two entries at most
C37_Witness ==
    /\ last.op = "set" /\ last.age = -1 /\ max_size = 2 /\ Len(cache) = 2
    /\ Contains(cache, last.order_id)
    /\ Entry(cache, last.order_id).timestamp = now
    /\ \E b \in Keys(cache) \ {last.order_id} : Entry(cache, b).timestamp < now

\* C40: a poll with the cache enabled that obtains a terminal result from
\* the remote service while the cache is full removes at most one entry
\* cached before, the one with the oldest timestamp, and leaves the cache
\* holding max_size entries.  Stated for the poll of a job that has no
\* entry, on a cache full of entries of other jobs.
C40_PollStep ==
    (/\ ModulePolled /\ last'.use_cache /\ last'.requests = 1
     /\ last'.ret[1] \in TerminalStatuses
     /\ Len(cache) = max_size /\ ~Contains(cache, last'.order_id)) =>
        /\ Cardinality(Keys(cache) \ Keys(cache')) <= 1
        /\ Keys(cache) \ Keys(cache') \subseteq {OldestKey(cache)}
        /\ Len(cache') = max_size

C40_PollEvictsOnce == [][C40_PollStep]_vars

\* ------------------------------------------------------- faulty responses
\* the order statuses and the codes the remote interface documents
KnownOrderStatuses == {0, 1, 2, 3, 4, 9}
KnownCodes == {"000000", "0", "26602"} \cup ListedErrorCodes

\* the response is the report of a transport failure made up by
\* _send_request: code -1
TransportFailure(resp) == "code" \in DOMAIN resp /\ resp.code = IntCode("-1")

\* a response of the remote service that is malformed or unexpected: no
\* code, a success code without content or order information, an unknown
\* order status, an unknown error code
Malformed(resp) ==
    \/ "code" \notin DOMAIN resp
    \/ /\ resp.code = StrCode("000000")
       /\ ("content" \notin DOMAIN resp \/ "orderInfo" \notin DOMAIN resp.content)
    \/ /\ resp.code \in {StrCode("000000"), IntCode("0")}
       /\ OrderStatus(resp) \notin KnownOrderStatuses
    \/ /\ ~TransportFailure(resp)
       /\ resp.code.v \notin KnownCodes

\* the call recorded in l was a poll that queried the remote service
Queried(l) == l.op \in PollOps /\ l.requests = 1

\* C31: a poll that receives a malformed or unexpected response returns the
\* status 'failed', never 'processing' or 'completed'.  (The result that is
\* returned with the status is None in every failure branch, see C30; the
\* property is stated for the status.)
C31_MalformedIsFailed ==
    (Queried(last) /\ Malformed(last.resp)) => last.ret[1] = "failed"

\* C34: GET /result/{task_id} answers 404 whenever the poll status is
\* 'not_found', and 500 only when obtaining the result raised an error.
C34_NotFoundIs404 ==
    last.op = "get_transcription" =>
        /\ (last.ret[1] = "not_found") => (last.http = 404)
        /\ (last.http = 500) => (last.ret = ValueError)

\* C38: the 'failed' outcome of a poll whose request failed in the transport
\* is not written to the cache, and the next poll of the same job issues a
\* fresh remote query.
C38_PollStep ==
    /\ (Polled /\ Queried(last') /\ TransportFailure(last'.resp)) =>
          ~Contains(cache', last'.order_id)
    /\ (/\ Queried(last) /\ TransportFailure(last.resp)
        /\ Polled /\ last'.order_id = last.order_id /\ last'.creds) =>
          last'.requests = 1

C38_TransportFailureNotCached == [][C38_PollStep]_vars

\* ------------------------------------------------ the requests of a wait
\* the step issues a getProgress request / a getResult request
ProgressQuery == wpc = "progress" /\ wpc' # "progress"
ResultQuery == wpc = "result" /\ wpc' # "result"

\* the progress status ends the wait: the order is done (9) or has failed
TerminalProgress(status) == status = 9 \/ status = -1

\* C36: wait_for_result issues a progress query only while no terminal
\* status has been observed and the deadline test before it found the
\* deadline not passed, with exactly one sleep of one poll interval between
\* two consecutive progress queries; getResult is requested only after a
\* progress query reported status 9, and once.
C36_Step ==
    /\ ProgressQuery =>
          /\ ~TerminalProgress(wait.seen)
          /\ wait.tested >= 0 /\ wait.tested <= wait.timeout
          /\ wait.polled => wait.sleeps = 1
          /\ wait.results = 0
    /\ ResultQuery => (wait.seen = 9 /\ wait.results = 0 /\ wait'.results = 1)
    /\ (wpc = "sleep" /\ wpc' # "sleep") =>
          (now' - now = wait.interval \/ now' = Horizon)

C36_QueriesWhileWaiting == [][C36_Step]_vars

\* a second progress query is about to be issued, after a query that
\* reported status 3 and one sleep of one second
C36_Witness ==
    /\ wpc = "progress" /\ wait.polled /\ wait.seen = 3
    /\ wait.sleeps = 1 /\ wait.interval = 1
    /\ now - wait.start_time >= 1

\* ----------------------------------------------- the accepted submissions
\* C39: upload_file of the V2 client returns the order id for every answer
\* for which upload_url returns it: for code "000000" with content.orderId
\* and for code 0 with a top-level orderId.
C39_FileAcceptsWhatUrlAccepts ==
    (/\ parsed.fn = "upload_file" /\ parsed.done
     /\ UploadUrl(parsed.arg) # "None") =>
        parsed.ret = UploadUrl(parsed.arg)

====
